---- MODULE Spec2Model ----
(***************************************************************************)
(* A model of the sfen crate: the offset-tracked byte slice (bytes.rs),    *)
(* the error model (parse.rs) and the recursive-descent parsers and        *)
(* formatters for squares, pieces, boards, hands, moves, positions and     *)
(* game records.                                                           *)
(*                                                                         *)
(* A byte string is a sequence of one-character strings.  A parser result  *)
(* is a record whose kind is "Ok", "InvalidInput", "Extra" or "Panic"; the *)
(* last one stands for a Rust panic (index out of bounds, slice out of     *)
(* range, unwrap on None, arithmetic overflow).                            *)
(***************************************************************************)
EXTENDS Integers, Sequences, FiniteSets, TLC

VARIABLES
    top,      \* bytes.rs: the buffer handed to Bytes::new
    view,     \* bytes.rs: the Bytes view currently in hand
    iter,     \* bytes.rs: the Split or Tokens iterator in use (or none)
    kind,     \* which from_str / Display pair the session drives
    text,     \* the string handed to from_str / produced by to_string
    value,    \* the value handed to to_string (or none)
    result,   \* what from_str returned for text (or none)
    ghost     \* what the input was assembled from (history only)

vars == <<top, view, iter, kind, text, value, result, ghost>>

(***************************************************************************)
(* Bounds of the model.                                                    *)
(***************************************************************************)
MaxBufLen == 3
MaxRowLen == 4
MaxFields == 10
MaxPlaced == 3
MaxElems == 3
MaxSet == 3
MaxSpecial == 2
MaxMoves == 2
MaxPad == 2
MaxExtra == 2

(***************************************************************************)
(* Characters.                                                             *)
(***************************************************************************)
DigitChars == <<"0", "1", "2", "3", "4", "5", "6", "7", "8", "9">>

IsDigit09(c) == \E d \in 0..9 : DigitChars[d + 1] = c

IsDigit19(c) == \E d \in 1..9 : DigitChars[d + 1] = c

\* b - b'0' for a digit byte b
DigitVal(c) == CHOOSE d \in 0..9 : DigitChars[d + 1] = c

NoByte == ""

(***************************************************************************)
(* bytes.rs: Bytes                                                         *)
(***************************************************************************)
Bytes__new(buf, base_offset) == [buf |-> buf, base_offset |-> base_offset]

Bytes_new(buf) == Bytes__new(buf, 0)

is_empty(bytes) == Len(bytes.buf) = 0

len(bytes) == Len(bytes.buf)

\* Option<&u8>: NoByte stands for None
get(bytes, idx) == IF idx < Len(bytes.buf) THEN bytes.buf[idx + 1] ELSE NoByte

\* &self.buf[start..end] panics unless start <= end <= len
range_in_bounds(bytes, start, end) == start <= end /\ end <= Len(bytes.buf)

range(bytes, start, end) ==
    Bytes__new(SubSeq(bytes.buf, start + 1, end), bytes.base_offset + start)

range_from_mut_keep_base(bytes, start) ==
    Bytes__new(SubSeq(bytes.buf, start + 1, Len(bytes.buf)), bytes.base_offset)

range_from(bytes, start) ==
    Bytes__new(SubSeq(bytes.buf, start + 1, Len(bytes.buf)), bytes.base_offset + start)

range_to(bytes, end) ==
    Bytes__new(SubSeq(bytes.buf, 1, end), bytes.base_offset)

\* (l, r) as a pair
split_at(bytes, mid) ==
    << Bytes__new(SubSeq(bytes.buf, 1, mid), bytes.base_offset),
       Bytes__new(SubSeq(bytes.buf, mid + 1, Len(bytes.buf)), bytes.base_offset + mid) >>

\* Option<(Self, Self)>: the empty tuple stands for None
try_split_at(bytes, mid) ==
    IF mid <= len(bytes) THEN split_at(bytes, mid) ELSE << >>

\* slice::Iter::position with the predicate b == c (eq) or b != c (~eq):
\* 0-based index of the first byte satisfying it, or -1 for None
position(buf, c, eq) ==
    IF \E i \in 1..Len(buf) : (buf[i] = c) = eq
    THEN (CHOOSE i \in 1..Len(buf) :
              ((buf[i] = c) = eq) /\ \A j \in 1..(i - 1) : (buf[j] = c) # eq) - 1
    ELSE -1

(***************************************************************************)
(* bytes.rs: Split.  The predicate of every caller is "b == delim".        *)
(***************************************************************************)
Split_new(bytes, delim) ==
    [type |-> "Split", bytes |-> bytes, delim |-> delim, finished |-> FALSE]

Split_next_mut_no_last_field(it) ==
    IF it.finished
    THEN [some |-> FALSE, item |-> it.bytes, it |-> it]
    ELSE LET pos == position(it.bytes.buf, it.delim, TRUE)
         IN IF pos >= 0
            THEN [some |-> TRUE,
                  item |-> range_to(it.bytes, pos),
                  it   |-> [it EXCEPT !.bytes = range_from(it.bytes, pos + 1)]]
            ELSE [some |-> FALSE,
                  item |-> it.bytes,
                  it   |-> [it EXCEPT !.finished = TRUE]]

\* next() as a record: some (an item was yielded), item, it (the iterator after)
Split_next(it) ==
    IF it.finished
    THEN [some |-> FALSE, item |-> it.bytes, it |-> it]
    ELSE LET pos == position(it.bytes.buf, it.delim, TRUE)
         IN IF pos >= 0
            THEN [some |-> TRUE,
                  item |-> range_to(it.bytes, pos),
                  it   |-> [it EXCEPT !.bytes = range_from(it.bytes, pos + 1)]]
            ELSE [some |-> TRUE,
                  item |-> it.bytes,
                  it   |-> [it EXCEPT !.finished = TRUE]]

(***************************************************************************)
(* bytes.rs: Tokens                                                        *)
(***************************************************************************)
Tokens_new(bytes) == [type |-> "Tokens", bytes |-> bytes]

Tokens_remain_mut_no_strip(it) == it.bytes

Tokens_remain(it) ==
    LET p == position(it.bytes.buf, " ", FALSE)
        start == IF p >= 0 THEN p ELSE len(it.bytes)
    IN range_from(it.bytes, start)

Tokens_next(it) ==
    LET start == position(it.bytes.buf, " ", FALSE)
    IN IF start < 0
       THEN [some |-> FALSE, item |-> it.bytes, it |-> it]
       ELSE LET bytes == range_from(it.bytes, start)
                p == position(bytes.buf, " ", TRUE)
                end == IF p >= 0 THEN p ELSE len(bytes)
                lr == split_at(bytes, end)
            IN [some |-> TRUE, item |-> lr[1], it |-> [it EXCEPT !.bytes = lr[2]]]

tokens(bytes) == Tokens_new(bytes)

(***************************************************************************)
(* parse.rs: SfenParseError, SfenParseResult, parser_complete              *)
(***************************************************************************)
\* Ok((remain, value)) of a parse function
Ok(remain, v) == [kind |-> "Ok", remain |-> remain, value |-> v]

\* (the descriptions are the source's literals without their backquotes)
invalid_input(bytes, description) ==
    [kind |-> "InvalidInput", offset |-> bytes.base_offset, description |-> description]

extra_mut_end_of_view(bytes) == [kind |-> "Extra", offset |-> bytes.base_offset + len(bytes)]

extra(bytes) == [kind |-> "Extra", offset |-> bytes.base_offset]

\* a Rust panic; never a value of SfenParseResult
Panic(message) == [kind |-> "Panic", message |-> message]

\* the closure returned by parser_complete(f), applied to f's result
parser_complete_mut_ignore_remain(r) ==
    IF r.kind # "Ok" THEN r ELSE [kind |-> "Ok", value |-> r.value]

parser_complete(r) ==
    IF r.kind # "Ok"
    THEN r
    ELSE IF is_empty(r.remain)
         THEN [kind |-> "Ok", value |-> r.value]
         ELSE extra(r.remain)

(***************************************************************************)
(* A match on one byte is a table of <<byte, value>> arms.                 *)
(***************************************************************************)
HasArm(table, c) == \E i \in 1..Len(table) : table[i][1] = c

Arm(table, c) == table[CHOOSE i \in 1..Len(table) : table[i][1] = c][2]

\* the common shape "try_split_at(1), then match bytes[0]" of the leaf parsers
parse_one_byte(bytes, table, description) ==
    LET sp == try_split_at(bytes, 1)
    IN IF sp = << >>
       THEN invalid_input(bytes, description)
       ELSE IF HasArm(table, sp[1].buf[1])
            THEN Ok(sp[2], Arm(table, sp[1].buf[1]))
            ELSE invalid_input(sp[1], description)

(***************************************************************************)
(* side.rs                                                                 *)
(***************************************************************************)
SENTE == "Sente"

GOTE == "Gote"

Side_parse(bytes) ==
    LET table == << <<"b", SENTE>>, <<"w", GOTE>> >>
    IN parse_one_byte(bytes, table, "Side ('b' | 'w') expected")

Side_fmt(side) == IF side = SENTE THEN <<"b">> ELSE <<"w">>

(***************************************************************************)
(* square.rs: Col and Row are their indices 0..8 (Col9 = 0, Row1 = 0),     *)
(* a Square its index 0..80.                                               *)
(***************************************************************************)
Col_all_private == <<0, 1, 2, 3, 4, 5, 6, 7, 8>>

Row_all_private == <<0, 1, 2, 3, 4, 5, 6, 7, 8>>

Col_parse(bytes) ==
    LET table == 
            << <<"9", 0>>, <<"8", 1>>, <<"7", 2>>, <<"6", 3>>, <<"5", 4>>,
                         <<"4", 5>>, <<"3", 6>>, <<"2", 7>>, <<"1", 8>> >>
    IN parse_one_byte(bytes, table, "Col ([1-9]) expected")

Col_fmt_mut_ascending(col) == << <<"1", "2", "3", "4", "5", "6", "7", "8", "9">>[col + 1] >>

Col_fmt(col) == << <<"9", "8", "7", "6", "5", "4", "3", "2", "1">>[col + 1] >>

Row_parse(bytes) ==
    LET table == 
            << <<"a", 0>>, <<"b", 1>>, <<"c", 2>>, <<"d", 3>>, <<"e", 4>>,
                         <<"f", 5>>, <<"g", 6>>, <<"h", 7>>, <<"i", 8>> >>
    IN parse_one_byte(bytes, table, "Row ([a-i]) expected")

Row_fmt(row) == << <<"a", "b", "c", "d", "e", "f", "g", "h", "i">>[row + 1] >>

\* the match of Square::new lists the squares row by row, nine columns each
Square_new(col, row) == 9 * row + col

\* TABLE of Square::col: nine repetitions of COL_9 .. COL_1
Square_col(sq) == sq % 9

\* TABLE of Square::row: nine ROW_1, nine ROW_2, ...
Square_row(sq) == sq \div 9

Square_parse(bytes) ==
    LET c == Col_parse(bytes)
    IN IF c.kind # "Ok" THEN c
       ELSE LET r == Row_parse(c.remain)
            IN IF r.kind # "Ok" THEN r
               ELSE Ok(r.remain, Square_new(c.value, r.value))

Square_fmt(sq) == Col_fmt(Square_col(sq)) \o Row_fmt(Square_row(sq))

(***************************************************************************)
(* piece.rs: a Piece is the pair (side, kind) that Piece::new flattens.    *)
(***************************************************************************)
Piece_new(side, pk) == [side |-> side, kind |-> pk]

\* Option<Piece>::None
NoPiece == [side |-> "None", kind |-> "None"]

parse_raw_piece(bytes) ==
    LET table == 
            << <<"P", Piece_new(SENTE, "Pawn")>>,   <<"L", Piece_new(SENTE, "Lance")>>,
                         <<"N", Piece_new(SENTE, "Knight")>>, <<"S", Piece_new(SENTE, "Silver")>>,
                         <<"B", Piece_new(SENTE, "Bishop")>>, <<"R", Piece_new(SENTE, "Rook")>>,
                         <<"G", Piece_new(SENTE, "Gold")>>,   <<"K", Piece_new(SENTE, "King")>>,
                         <<"p", Piece_new(GOTE, "Pawn")>>,    <<"l", Piece_new(GOTE, "Lance")>>,
                         <<"n", Piece_new(GOTE, "Knight")>>,  <<"s", Piece_new(GOTE, "Silver")>>,
                         <<"b", Piece_new(GOTE, "Bishop")>>,  <<"r", Piece_new(GOTE, "Rook")>>,
                         <<"g", Piece_new(GOTE, "Gold")>>,    <<"k", Piece_new(GOTE, "King")>> >>
    IN parse_one_byte(bytes, table, "raw piece expected")

parse_promoted_piece(bytes) ==
    LET table == 
            << <<"P", Piece_new(SENTE, "ProPawn")>>,   <<"L", Piece_new(SENTE, "ProLance")>>,
                         <<"N", Piece_new(SENTE, "ProKnight")>>, <<"S", Piece_new(SENTE, "ProSilver")>>,
                         <<"B", Piece_new(SENTE, "Horse")>>,     <<"R", Piece_new(SENTE, "Dragon")>>,
                         <<"p", Piece_new(GOTE, "ProPawn")>>,    <<"l", Piece_new(GOTE, "ProLance")>>,
                         <<"n", Piece_new(GOTE, "ProKnight")>>,  <<"s", Piece_new(GOTE, "ProSilver")>>,
                         <<"b", Piece_new(GOTE, "Horse")>>,      <<"r", Piece_new(GOTE, "Dragon")>> >>
    IN parse_one_byte(bytes, table, "promoted piece expected")

Piece_parse_mut_promote_any(bytes) ==
    IF get(bytes, 0) = "+"
    THEN parse_raw_piece(range_from(bytes, 1))
    ELSE parse_raw_piece(bytes)

Piece_parse(bytes) ==
    IF get(bytes, 0) = "+"
    THEN parse_promoted_piece(range_from(bytes, 1))
    ELSE parse_raw_piece(bytes)

Piece_fmt(pc) ==
    LET table == 
            << <<Piece_new(SENTE, "Pawn"), <<"P">> >>,        <<Piece_new(SENTE, "Lance"), <<"L">> >>,
                         <<Piece_new(SENTE, "Knight"), <<"N">> >>,      <<Piece_new(SENTE, "Silver"), <<"S">> >>,
                         <<Piece_new(SENTE, "Bishop"), <<"B">> >>,      <<Piece_new(SENTE, "Rook"), <<"R">> >>,
                         <<Piece_new(SENTE, "Gold"), <<"G">> >>,        <<Piece_new(SENTE, "King"), <<"K">> >>,
                         <<Piece_new(SENTE, "ProPawn"), <<"+", "P">> >>,   <<Piece_new(SENTE, "ProLance"), <<"+", "L">> >>,
                         <<Piece_new(SENTE, "ProKnight"), <<"+", "N">> >>, <<Piece_new(SENTE, "ProSilver"), <<"+", "S">> >>,
                         <<Piece_new(SENTE, "Horse"), <<"+", "B">> >>,     <<Piece_new(SENTE, "Dragon"), <<"+", "R">> >>,
                         <<Piece_new(GOTE, "Pawn"), <<"p">> >>,         <<Piece_new(GOTE, "Lance"), <<"l">> >>,
                         <<Piece_new(GOTE, "Knight"), <<"n">> >>,       <<Piece_new(GOTE, "Silver"), <<"s">> >>,
                         <<Piece_new(GOTE, "Bishop"), <<"b">> >>,       <<Piece_new(GOTE, "Rook"), <<"r">> >>,
                         <<Piece_new(GOTE, "Gold"), <<"g">> >>,         <<Piece_new(GOTE, "King"), <<"k">> >>,
                         <<Piece_new(GOTE, "ProPawn"), <<"+", "p">> >>,    <<Piece_new(GOTE, "ProLance"), <<"+", "l">> >>,
                         <<Piece_new(GOTE, "ProKnight"), <<"+", "n">> >>,  <<Piece_new(GOTE, "ProSilver"), <<"+", "s">> >>,
                         <<Piece_new(GOTE, "Horse"), <<"+", "b">> >>,      <<Piece_new(GOTE, "Dragon"), <<"+", "r">> >> >>
    IN Arm(table, pc)

(***************************************************************************)
(* hand.rs: HandPieceKind                                                  *)
(***************************************************************************)
HandPieceKind_all == <<"Pawn", "Lance", "Knight", "Silver", "Bishop", "Rook", "Gold">>

HandPieceKind_parse(bytes) ==
    LET table == 
            << <<"P", "Pawn">>, <<"L", "Lance">>, <<"N", "Knight">>, <<"S", "Silver">>,
                         <<"B", "Bishop">>, <<"R", "Rook">>, <<"G", "Gold">> >>
    IN parse_one_byte(bytes, table, "hand piece kind expected")

HandPieceKind_fmt(hpk) ==
    LET table == 
            << <<"Pawn", "P">>, <<"Lance", "L">>, <<"Knight", "N">>, <<"Silver", "S">>,
                         <<"Bishop", "B">>, <<"Rook", "R">>, <<"Gold", "G">> >>
    IN << Arm(table, hpk) >>

(***************************************************************************)
(* Display of the unsigned integers (u8, u32, usize): decimal digits,      *)
(* most significant first, no leading zero.                                *)
(***************************************************************************)
RECURSIVE uint_fmt(_)
uint_fmt(n) ==
    IF n < 10
    THEN << DigitChars[n + 1] >>
    ELSE uint_fmt(n \div 10) \o << DigitChars[(n % 10) + 1] >>

(***************************************************************************)
(* board.rs: a BoardRow is a function Col -> Option<Piece>, a Board a      *)
(* function Row -> BoardRow.                                               *)
(***************************************************************************)
BoardRow_empty == [col \in 0..8 |-> NoPiece]

Board_empty == [row \in 0..8 |-> BoardRow_empty]

BoardRow_of(cells) == [col \in 0..8 |-> cells[col + 1]]

Board_startpos ==
    LET G(pk) == Piece_new(GOTE, pk)
        S(pk) == Piece_new(SENTE, pk)
        N == NoPiece
        rows ==
          << BoardRow_of(<<G("Lance"), G("Knight"), G("Silver"), G("Gold"), G("King"),
                           G("Gold"), G("Silver"), G("Knight"), G("Lance")>>),
             BoardRow_of(<<N, G("Rook"), N, N, N, N, N, G("Bishop"), N>>),
             BoardRow_of(<<G("Pawn"), G("Pawn"), G("Pawn"), G("Pawn"), G("Pawn"),
                           G("Pawn"), G("Pawn"), G("Pawn"), G("Pawn")>>),
             BoardRow_empty,
             BoardRow_empty,
             BoardRow_empty,
             BoardRow_of(<<S("Pawn"), S("Pawn"), S("Pawn"), S("Pawn"), S("Pawn"),
                           S("Pawn"), S("Pawn"), S("Pawn"), S("Pawn")>>),
             BoardRow_of(<<N, S("Bishop"), N, N, N, N, N, S("Rook"), N>>),
             BoardRow_of(<<S("Lance"), S("Knight"), S("Silver"), S("Gold"), S("King"),
                           S("Gold"), S("Silver"), S("Knight"), S("Lance")>>) >>
    IN [row \in 0..8 |-> rows[row + 1]]

\* impl Index<Square> for Board
Board_index(board, sq) == board[Square_row(sq)][Square_col(sq)]

\* impl IndexMut<Square> for Board:  board[sq] = pc
Board_index_mut(board, sq, pc) ==
    [board EXCEPT ![Square_row(sq)][Square_col(sq)] = pc]

BoardRowElem_parse_mut_digit_as_one(bytes) ==
    IF IsDigit19(get(bytes, 0))
    THEN Ok(range_from(bytes, 1), [tag |-> "Blanks", n |-> 1])
    ELSE LET r == Piece_parse(bytes)
         IN IF r.kind # "Ok" THEN r
            ELSE Ok(r.remain, [tag |-> "Piece", pc |-> r.value])

BoardRowElem_parse(bytes) ==
    IF IsDigit19(get(bytes, 0))
    THEN Ok(range_from(bytes, 1), [tag |-> "Blanks", n |-> DigitVal(get(bytes, 0))])
    ELSE LET r == Piece_parse(bytes)
         IN IF r.kind # "Ok" THEN r
            ELSE Ok(r.remain, [tag |-> "Piece", pc |-> r.value])

\* the while loop of BoardRow::parse; i is the running column count
RECURSIVE BoardRow_parse_loop(_, _, _)
BoardRow_parse_loop(bytes, board_row, i) ==
    IF is_empty(bytes)
    THEN IF i # 9
         THEN invalid_input(bytes, "board row has less than 9 columns")
         ELSE Ok(range_from(bytes, len(bytes)), board_row)
    ELSE LET e == BoardRowElem_parse(bytes)
         IN IF e.kind # "Ok" THEN e
            ELSE IF e.value.tag = "Blanks"
                 THEN IF i + e.value.n > 9
                      THEN invalid_input(e.remain, "board row has more than 9 columns")
                      ELSE BoardRow_parse_loop(e.remain, board_row, i + e.value.n)
                 ELSE \* Col::all_private()[i] on an array of 9 elements
                      IF i >= Len(Col_all_private)
                      THEN Panic("index out of bounds")
                      ELSE IF i + 1 > 9
                           THEN invalid_input(e.remain, "board row has more than 9 columns")
                           ELSE BoardRow_parse_loop(
                                    e.remain,
                                    [board_row EXCEPT ![Col_all_private[i + 1]] = e.value.pc],
                                    i + 1)

BoardRow_parse(bytes) ==
    IF is_empty(bytes)
    THEN invalid_input(bytes, "board row expected")
    ELSE BoardRow_parse_loop(bytes, BoardRow_empty, 0)

\* the for loop of Board::parse over Row::all_private(), then the check
\* that no field is left
RECURSIVE Board_parse_rows(_, _, _, _)
Board_parse_rows(bytes, fields, r, board) ==
    IF r = Len(Row_all_private)
    THEN IF Split_next(fields).some
         THEN invalid_input(bytes, "board has more than 9 rows")
         ELSE Ok(range_from(bytes, len(bytes)), board)
    ELSE LET field == Split_next(fields)
         IN IF ~field.some
            THEN invalid_input(bytes, "board has less than 9 rows")
            ELSE LET row == BoardRow_parse(field.item)
                 IN IF row.kind # "Ok" THEN row
                    ELSE Board_parse_rows(
                             bytes, field.it, r + 1,
                             [board EXCEPT ![Row_all_private[r + 1]] = row.value])

Board_parse_mut_error_at_end(bytes) ==
    LET r == Board_parse_rows(bytes, Split_new(bytes, "/"), 0, Board_empty)
    IN IF r.kind = "InvalidInput" /\ r.description = "board has more than 9 rows"
       THEN invalid_input(range_from(bytes, len(bytes)), r.description)
       ELSE r

Board_parse(bytes) == Board_parse_rows(bytes, Split_new(bytes, "/"), 0, Board_empty)

\* State of impl Display for BoardRow: the text written so far and run_blank
flush_blanks_mut_no_reset(st) ==
    IF st.run_blank > 0
    THEN [f |-> st.f \o uint_fmt(st.run_blank), run_blank |-> st.run_blank]
    ELSE st

flush_blanks(st) ==
    IF st.run_blank > 0
    THEN [f |-> st.f \o uint_fmt(st.run_blank), run_blank |-> 0]
    ELSE st

update(st, pc) ==
    IF pc # NoPiece
    THEN LET flushed == flush_blanks(st)
         IN [flushed EXCEPT !.f = @ \o Piece_fmt(pc)]
    ELSE [st EXCEPT !.run_blank = @ + 1]

RECURSIVE BoardRow_fmt_cols(_, _, _)
BoardRow_fmt_cols(board_row, c, st) ==
    IF c = Len(Col_all_private)
    THEN flush_blanks(st).f
    ELSE BoardRow_fmt_cols(board_row, c + 1, update(st, board_row[Col_all_private[c + 1]]))

BoardRow_fmt(board_row) == BoardRow_fmt_cols(board_row, 0, [f |-> << >>, run_blank |-> 0])

RECURSIVE Board_fmt_rows(_, _)
Board_fmt_rows(board, r) ==
    IF r = Len(Row_all_private)
    THEN << >>
    ELSE (IF Row_all_private[r + 1] # 0 THEN <<"/">> ELSE << >>)
         \o BoardRow_fmt(board[Row_all_private[r + 1]])
         \o Board_fmt_rows(board, r + 1)

Board_fmt(board) == Board_fmt_rows(board, 0)

(***************************************************************************)
(* hand.rs: Hand, Hands, HandsElem.  A Hands value is a function           *)
(* Side -> HandPieceKind -> u8.                                            *)
(***************************************************************************)
U8_MAX == 255

HandKinds == { HandPieceKind_all[i] : i \in 1..Len(HandPieceKind_all) }

Hand_empty == [hpk \in HandKinds |-> 0]

Hands_empty == [side \in {SENTE, GOTE} |-> Hand_empty]

Hands_is_empty(hands) == hands = Hands_empty

\* u8::saturating_add
saturating_add_mut_wrapping(a, b) == (a + b) % (U8_MAX + 1)

saturating_add(a, b) == IF a + b > U8_MAX THEN U8_MAX ELSE a + b

parse_count(bytes) ==
    LET sp == try_split_at(bytes, 1)
    IN IF sp = << >>
       THEN invalid_input(bytes, "hand piece count expected")
       ELSE LET first == sp[1]
                rest == sp[2]
            IN IF ~IsDigit19(first.buf[1])
               THEN invalid_input(first, "hand piece count expected")
               ELSE LET count == DigitVal(first.buf[1])
                        second == get(rest, 0)
                    IN IF IsDigit09(second)
                       THEN \* 10 * count + b - b'0' in u8, b the digit's byte
                            IF 10 * count + (48 + DigitVal(second)) > U8_MAX
                            THEN Panic("attempt to add with overflow")
                            ELSE IF 10 * count + DigitVal(second) = 0
                                 THEN Panic("called Option::unwrap() on a None value")
                                 ELSE Ok(range_from(rest, 1), 10 * count + DigitVal(second))
                       ELSE IF count = 0
                            THEN Panic("called Option::unwrap() on a None value")
                            ELSE Ok(rest, count)

parse_hand_piece(bytes) ==
    LET table == 
            << <<"P", <<SENTE, "Pawn">> >>,   <<"L", <<SENTE, "Lance">> >>,
                         <<"N", <<SENTE, "Knight">> >>, <<"S", <<SENTE, "Silver">> >>,
                         <<"B", <<SENTE, "Bishop">> >>, <<"R", <<SENTE, "Rook">> >>,
                         <<"G", <<SENTE, "Gold">> >>,
                         <<"p", <<GOTE, "Pawn">> >>,    <<"l", <<GOTE, "Lance">> >>,
                         <<"n", <<GOTE, "Knight">> >>,  <<"s", <<GOTE, "Silver">> >>,
                         <<"b", <<GOTE, "Bishop">> >>,  <<"r", <<GOTE, "Rook">> >>,
                         <<"g", <<GOTE, "Gold">> >> >>
    IN parse_one_byte(bytes, table, "hand piece expected")

HandsElem_parse(bytes) ==
    LET c == parse_count(bytes)
    IN IF c.kind = "Panic" THEN c
       ELSE LET after == IF c.kind = "Ok" THEN c.remain ELSE bytes
                count == IF c.kind = "Ok" THEN c.value ELSE 1
                hp == parse_hand_piece(after)
            IN IF hp.kind # "Ok" THEN hp
               ELSE Ok(hp.remain, [side |-> hp.value[1], hpk |-> hp.value[2], count |-> count])

\* the while loop of Hands::parse
RECURSIVE Hands_parse_loop(_, _)
Hands_parse_loop(bytes, hands) ==
    IF is_empty(bytes)
    THEN Ok(bytes, hands)
    ELSE LET e == HandsElem_parse(bytes)
         IN IF e.kind # "Ok" THEN e
            ELSE Hands_parse_loop(
                     e.remain,
                     [hands EXCEPT ![e.value.side][e.value.hpk] =
                                       saturating_add(@, e.value.count)])

Hands_parse_mut_dash_prefix(bytes) ==
    IF is_empty(bytes)
    THEN invalid_input(bytes, "Hands expected")
    ELSE IF get(bytes, 0) = "-"
         THEN Ok(range_from(bytes, 1), Hands_empty)
         ELSE Hands_parse_loop(bytes, Hands_empty)

Hands_parse(bytes) ==
    IF is_empty(bytes)
    THEN invalid_input(bytes, "Hands expected")
    ELSE IF bytes.buf = <<"-">>
         THEN Ok(range_from(bytes, len(bytes)), Hands_empty)
         ELSE Hands_parse_loop(bytes, Hands_empty)

fmt_hand_piece(side, hpk) ==
    LET table == 
            << << <<SENTE, "Pawn">>, "P">>,   << <<SENTE, "Lance">>, "L">>,
                         << <<SENTE, "Knight">>, "N">>, << <<SENTE, "Silver">>, "S">>,
                         << <<SENTE, "Bishop">>, "B">>, << <<SENTE, "Rook">>, "R">>,
                         << <<SENTE, "Gold">>, "G">>,
                         << <<GOTE, "Pawn">>, "p">>,    << <<GOTE, "Lance">>, "l">>,
                         << <<GOTE, "Knight">>, "n">>,  << <<GOTE, "Silver">>, "s">>,
                         << <<GOTE, "Bishop">>, "b">>,  << <<GOTE, "Rook">>, "r">>,
                         << <<GOTE, "Gold">>, "g">> >>
    IN << Arm(table, <<side, hpk>>) >>

HPKS_mut_enum_order == HandPieceKind_all

\* const HPKS of impl Display for Hands
HPKS == <<"Rook", "Bishop", "Gold", "Silver", "Knight", "Lance", "Pawn">>

\* the nested for loops of impl Display for Hands; k counts (side, hpk) pairs
RECURSIVE Hands_fmt_loop(_, _)
Hands_fmt_loop(hands, k) ==
    IF k = 2 * Len(HPKS)
    THEN << >>
    ELSE LET side == <<SENTE, GOTE>>[(k \div Len(HPKS)) + 1]
             hpk == HPKS[(k % Len(HPKS)) + 1]
             n == hands[side][hpk]
         IN (IF n = 0
             THEN << >>
             ELSE (IF n > 1 THEN uint_fmt(n) ELSE << >>) \o fmt_hand_piece(side, hpk))
            \o Hands_fmt_loop(hands, k + 1)

Hands_fmt(hands) ==
    IF Hands_is_empty(hands) THEN <<"-">> ELSE Hands_fmt_loop(hands, 0)

(***************************************************************************)
(* move_.rs                                                                *)
(***************************************************************************)
MoveWalk_new(src, dst, promo) == [tag |-> "Walk", src |-> src, dst |-> dst, promo |-> promo]

MoveDrop_new(hpk, dst) == [tag |-> "Drop", hpk |-> hpk, dst |-> dst]

MoveWalk_parse(bytes) ==
    LET src == Square_parse(bytes)
    IN IF src.kind # "Ok" THEN src
       ELSE LET dst == Square_parse(src.remain)
            IN IF dst.kind # "Ok" THEN dst
               ELSE IF get(dst.remain, 0) = "+"
                    THEN Ok(range_from(dst.remain, 1), MoveWalk_new(src.value, dst.value, TRUE))
                    ELSE Ok(dst.remain, MoveWalk_new(src.value, dst.value, FALSE))

MoveWalk_fmt_mut_no_promo(walk) == Square_fmt(walk.src) \o Square_fmt(walk.dst)

MoveWalk_fmt(walk) ==
    Square_fmt(walk.src) \o Square_fmt(walk.dst) \o (IF walk.promo THEN <<"+">> ELSE << >>)

MoveDrop_parse(bytes) ==
    LET hpk == HandPieceKind_parse(bytes)
    IN IF hpk.kind # "Ok" THEN hpk
       ELSE IF get(hpk.remain, 0) # "*"
            THEN invalid_input(hpk.remain, "'*' expected")
            ELSE LET dst == Square_parse(range_from(hpk.remain, 1))
                 IN IF dst.kind # "Ok" THEN dst
                    ELSE Ok(dst.remain, MoveDrop_new(hpk.value, dst.value))

MoveDrop_fmt(drop) == HandPieceKind_fmt(drop.hpk) \o <<"*">> \o Square_fmt(drop.dst)

Move_walk(src, dst, promo) == MoveWalk_new(src, dst, promo)

Move_drop(hpk, dst) == MoveDrop_new(hpk, dst)

Move_parse_mut_walk_only(bytes) ==
    LET walk == MoveWalk_parse(bytes)
    IN IF walk.kind = "Ok" THEN walk ELSE invalid_input(bytes, "Move expected")

Move_parse(bytes) ==
    LET walk == MoveWalk_parse(bytes)
    IN IF walk.kind = "Ok" THEN walk
       ELSE LET drop == MoveDrop_parse(bytes)
            IN IF drop.kind = "Ok" THEN drop
               ELSE invalid_input(bytes, "Move expected")

Move_fmt(mv) == IF mv.tag = "Walk" THEN MoveWalk_fmt(mv) ELSE MoveDrop_fmt(mv)

(***************************************************************************)
(* u32 (the ply of position.rs, NonZeroU32) as two 16-bit limbs, so that   *)
(* the whole 32-bit range is representable.                                *)
(***************************************************************************)
LimbBase == 65536

U32(hi, lo) == [hi |-> hi, lo |-> lo]

\* <NonZeroU32 as FromStr>: an optional '+', then decimal digits; fails on
\* the empty string, a lone sign, a non-digit, overflow, and zero.
\* The result is <<ok, value>>.
RECURSIVE u32_accumulate(_, _, _)
u32_accumulate(digits, i, v) ==
    IF i > Len(digits)
    THEN <<TRUE, v>>
    ELSE IF ~IsDigit09(digits[i])
         THEN <<FALSE, v>>
         ELSE LET lo10 == v.lo * 10 + DigitVal(digits[i])
                  hi10 == v.hi * 10 + (lo10 \div LimbBase)
              IN IF hi10 >= LimbBase
                 THEN <<FALSE, v>>
                 ELSE u32_accumulate(digits, i + 1, U32(hi10, lo10 % LimbBase))

NonZeroU32_from_str(s) ==
    IF Len(s) = 0
    THEN <<FALSE, U32(0, 0)>>
    ELSE IF Len(s) = 1 /\ s[1] \in {"+", "-"}
         THEN <<FALSE, U32(0, 0)>>
         ELSE LET digits == IF s[1] = "+" THEN Tail(s) ELSE s
                  r == u32_accumulate(digits, 1, U32(0, 0))
              IN IF r[1] /\ r[2] = U32(0, 0) THEN <<FALSE, r[2]>> ELSE r

\* <u32 as Display>
RECURSIVE u32_fmt(_)
u32_fmt(v) ==
    LET rem_hi == v.hi % 10
        lo_ext == rem_hi * LimbBase + v.lo
        q == U32(v.hi \div 10, lo_ext \div 10)
        d == lo_ext % 10
    IN IF q = U32(0, 0)
       THEN << DigitChars[d + 1] >>
       ELSE u32_fmt(q) \o << DigitChars[d + 1] >>

(***************************************************************************)
(* position.rs                                                             *)
(***************************************************************************)
\* the literals b"position", b"startpos", b"sfen" of Position::parse and
\* b"moves" of Kifu::parse
PositionWord == <<"p", "o", "s", "i", "t", "i", "o", "n">>

StartposWord == <<"s", "t", "a", "r", "t", "p", "o", "s">>

SfenWord == <<"s", "f", "e", "n">>

MovesWord == <<"m", "o", "v", "e", "s">>

Position_new(side_to_move, board, hands, ply) ==
    [side_to_move |-> side_to_move, board |-> board, hands |-> hands, ply |-> ply]

Position_startpos == Position_new(SENTE, Board_startpos, Hands_empty, U32(0, 1))

Position_is_startpos_mut_board_only(pos) == pos.board = Board_startpos

Position_is_startpos(pos) == pos = Position_startpos

\* the input is a str and tokens are cut at ASCII spaces, so from_utf8
\* cannot fail; what is left is the parse of the NonZeroU32
parse_ply(bytes) ==
    LET r == NonZeroU32_from_str(bytes.buf)
    IN IF r[1]
       THEN [kind |-> "Ok", value |-> r[2]]
       ELSE invalid_input(bytes, "ply must be NonZeroU32")

premature_end_mut_before_spaces(toks) == invalid_input(toks.bytes, "premature end of position")

\* the None arm of next_token!()
premature_end(toks) == invalid_input(Tokens_remain(toks), "premature end of position")

Position_parse_fields_mut_hands_at_token(n3) ==
    LET board == Board_parse(n3.item)
    IN IF board.kind # "Ok" THEN board
       ELSE LET n4 == Tokens_next(n3.it)
            IN IF ~n4.some THEN premature_end(n4.it)
               ELSE LET side == Side_parse(n4.item)
                    IN IF side.kind # "Ok" THEN side
                       ELSE LET n5 == Tokens_next(n4.it)
                            IN IF ~n5.some THEN premature_end(n5.it)
                               ELSE LET hands == Hands_parse(n5.item)
                                    IN IF hands.kind # "Ok"
                                       THEN invalid_input(n5.item, hands.description)
                                       ELSE LET n6 == Tokens_next(n5.it)
                                            IN IF ~n6.some THEN premature_end(n6.it)
                                               ELSE LET ply == parse_ply(n6.item)
                                                    IN IF ply.kind # "Ok" THEN ply
                                                       ELSE Ok(Tokens_remain(n6.it),
                                                               Position_new(side.value, board.value,
                                                                            hands.value, ply.value))

Position_parse_fields(n3) ==
    LET board == Board_parse(n3.item)
    IN IF board.kind # "Ok" THEN board
       ELSE LET n4 == Tokens_next(n3.it)
            IN IF ~n4.some THEN premature_end(n4.it)
               ELSE LET side == Side_parse(n4.item)
                    IN IF side.kind # "Ok" THEN side
                       ELSE LET n5 == Tokens_next(n4.it)
                            IN IF ~n5.some THEN premature_end(n5.it)
                               ELSE LET hands == Hands_parse(n5.item)
                                    IN IF hands.kind # "Ok" THEN hands
                                       ELSE LET n6 == Tokens_next(n5.it)
                                            IN IF ~n6.some THEN premature_end(n6.it)
                                               ELSE LET ply == parse_ply(n6.item)
                                                    IN IF ply.kind # "Ok" THEN ply
                                                       ELSE Ok(Tokens_remain(n6.it),
                                                               Position_new(side.value, board.value,
                                                                            hands.value, ply.value))

Position_parse_mut_sfen_after_position(bytes) ==
    LET n1 == Tokens_next(tokens(bytes))
    IN IF ~n1.some THEN premature_end(n1.it)
       ELSE LET n2 == IF n1.item.buf = PositionWord
                      THEN Tokens_next(n1.it)
                      ELSE n1
            IN IF ~n2.some THEN premature_end(n2.it)
               ELSE IF n2.item.buf = StartposWord
                    THEN Ok(Tokens_remain(n2.it), Position_startpos)
                    ELSE LET n3 == IF n2.item.buf = SfenWord /\ n1.item.buf = PositionWord
                                   THEN Tokens_next(n2.it)
                                   ELSE n2
                         IN IF ~n3.some THEN premature_end(n3.it)
                            ELSE Position_parse_fields(n3)

Position_parse(bytes) ==
    LET n1 == Tokens_next(tokens(bytes))
    IN IF ~n1.some THEN premature_end(n1.it)
       ELSE LET n2 == IF n1.item.buf = PositionWord
                      THEN Tokens_next(n1.it)
                      ELSE n1
            IN IF ~n2.some THEN premature_end(n2.it)
               ELSE IF n2.item.buf = StartposWord
                    THEN Ok(Tokens_remain(n2.it), Position_startpos)
                    ELSE LET n3 == IF n2.item.buf = SfenWord
                                   THEN Tokens_next(n2.it)
                                   ELSE n2
                         IN IF ~n3.some THEN premature_end(n3.it)
                            ELSE Position_parse_fields(n3)

Position_fmt(pos) ==
    IF Position_is_startpos(pos)
    THEN StartposWord
    ELSE SfenWord \o <<" ">>
         \o Board_fmt(pos.board) \o <<" ">>
         \o Side_fmt(pos.side_to_move) \o <<" ">>
         \o Hands_fmt(pos.hands) \o <<" ">>
         \o u32_fmt(pos.ply)

(***************************************************************************)
(* kifu.rs                                                                 *)
(***************************************************************************)
Kifu_new(pos, mvs) == [pos |-> pos, mvs |-> mvs]

\* for token in tokens { ... mvs.push(mv) }
RECURSIVE Kifu_parse_moves(_, _, _, _)
Kifu_parse_moves(bytes, toks, pos, mvs) ==
    LET n == Tokens_next(toks)
    IN IF ~n.some
       THEN Ok(range_from(bytes, len(bytes)), Kifu_new(pos, mvs))
       ELSE LET m == Move_parse(n.item)  \* let (_, mv): the remainder is dropped
            IN IF m.kind # "Ok" THEN m
               ELSE Kifu_parse_moves(bytes, n.it, pos, Append(mvs, m.value))

Kifu_parse_tail_mut_moves_required(bytes, pos, magic) ==
    IF magic.some /\ magic.item.buf = MovesWord
    THEN Kifu_parse_moves(bytes, magic.it, pos, << >>)
    ELSE invalid_input(magic.item, "\"moves\" expected")

\* after "let (bytes, pos) = Position::parse(bytes)?": the magic token and the moves
Kifu_parse_tail_mut_leave_rest(bytes, pos, magic) ==
    IF magic.some
    THEN IF magic.item.buf # MovesWord
         THEN Ok(magic.item, Kifu_new(pos, << >>))
         ELSE Kifu_parse_moves(bytes, magic.it, pos, << >>)
    ELSE Ok(Tokens_remain(magic.it), Kifu_new(pos, << >>))

Kifu_parse_tail(bytes, pos, magic) ==
    IF magic.some
    THEN IF magic.item.buf # MovesWord
         THEN invalid_input(magic.item, "\"moves\" expected")
         ELSE Kifu_parse_moves(bytes, magic.it, pos, << >>)
    ELSE Ok(Tokens_remain(magic.it), Kifu_new(pos, << >>))

Kifu_parse_position(p) ==
    IF p.kind # "Ok" THEN p
    ELSE Kifu_parse_tail(p.remain, p.value, Tokens_next(tokens(p.remain)))

Kifu_parse(bytes) == Kifu_parse_position(Position_parse(bytes))

RECURSIVE Kifu_fmt_moves(_, _)
Kifu_fmt_moves(mvs, i) ==
    IF i > Len(mvs)
    THEN << >>
    ELSE <<" ">> \o Move_fmt(mvs[i]) \o Kifu_fmt_moves(mvs, i + 1)

Kifu_fmt(kifu) ==
    PositionWord \o <<" ">>
    \o Position_fmt(kifu.pos)
    \o (IF Len(kifu.mvs) # 0
        THEN <<" ">> \o MovesWord \o Kifu_fmt_moves(kifu.mvs, 1)
        ELSE << >>)

(***************************************************************************)
(* The state machines.  Every one drives a part of the crate through its   *)
(* operations; kind tells which part.                                      *)
(***************************************************************************)
NoIter == [type |-> "None"]

NoValue == [some |-> FALSE]

Some(v) == [some |-> TRUE, v |-> v]

NoResult == [kind |-> "None"]

Min(a, b) == IF a < b THEN a ELSE b

(***************************************************************************)
(* Bytes: a buffer, the view in hand, and the iterator in use.             *)
(***************************************************************************)
Buffers == UNION { [1..n -> {"a", " ", "/"}] : n \in 0..MaxBufLen }

\* how many times next() is called again after it returned None
MaxNone == 2

\* ghost: the iterator made last (of), the view it was made over (over),
\* the items next() has yielded (yields), how often next() returned None
\* (nones), and what remain() returned (remain)
NoCalls == [of |-> "None", over |-> Bytes_new(<< >>), yields |-> << >>, nones |-> 0, remain |-> NoValue]

\* the state after construction: a buffer wrapped by Bytes::new, nothing
\* decoded or formatted yet
Start(k, buffers, g) ==
    /\ top \in buffers
    /\ view = Bytes_new(top)
    /\ iter = NoIter
    /\ kind = k
    /\ text = << >>
    /\ value = NoValue
    /\ result = NoResult
    /\ ghost = g

BytesRange ==
    /\ kind = "Bytes"
    /\ \E start \in 0..len(view), end \in 0..len(view) :
          /\ range_in_bounds(view, start, end)
          /\ view' = range(view, start, end)
    /\ UNCHANGED <<top, iter, kind, text, value, result, ghost>>

BytesRangeFrom ==
    /\ kind = "Bytes"
    /\ \E start \in 0..len(view) : view' = range_from(view, start)
    /\ UNCHANGED <<top, iter, kind, text, value, result, ghost>>

BytesRangeTo ==
    /\ kind = "Bytes"
    /\ \E end \in 0..len(view) : view' = range_to(view, end)
    /\ UNCHANGED <<top, iter, kind, text, value, result, ghost>>

BytesSplitAt ==
    /\ kind = "Bytes"
    /\ \E mid \in 0..len(view), half \in 1..2 : view' = split_at(view, mid)[half]
    /\ UNCHANGED <<top, iter, kind, text, value, result, ghost>>

\* a mid beyond the length yields None and leaves the view in hand
BytesTrySplitAt ==
    /\ kind = "Bytes"
    /\ \E mid \in 0..(len(view) + 1), half \in 1..2 :
          LET sp == try_split_at(view, mid)
          IN view' = IF sp = << >> THEN view ELSE sp[half]
    /\ UNCHANGED <<top, iter, kind, text, value, result, ghost>>

BytesSplit ==
    /\ kind = "Bytes"
    /\ iter' = Split_new(view, "/")
    /\ ghost' = [NoCalls EXCEPT !.of = "Split", !.over = view]
    /\ UNCHANGED <<top, view, kind, text, value, result>>

BytesSplitNext ==
    /\ kind = "Bytes"
    /\ iter.type = "Split"
    /\ LET n == Split_next(iter)
       IN /\ IF n.some THEN TRUE ELSE ghost.nones < MaxNone
          /\ iter' = n.it
          /\ view' = IF n.some THEN n.item ELSE view
          /\ ghost' = IF n.some
                       THEN [ghost EXCEPT !.yields = Append(@, n.item)]
                       ELSE [ghost EXCEPT !.nones = @ + 1]
    /\ UNCHANGED <<top, kind, text, value, result>>

BytesTokens ==
    /\ kind = "Bytes"
    /\ iter' = Tokens_new(view)
    /\ ghost' = [NoCalls EXCEPT !.of = "Tokens", !.over = view]
    /\ UNCHANGED <<top, view, kind, text, value, result>>

BytesTokensNext ==
    /\ kind = "Bytes"
    /\ iter.type = "Tokens"
    /\ LET n == Tokens_next(iter)
       IN /\ IF n.some THEN TRUE ELSE ghost.nones < MaxNone
          /\ iter' = n.it
          /\ view' = IF n.some THEN n.item ELSE view
          /\ ghost' = IF n.some
                       THEN [ghost EXCEPT !.yields = Append(@, n.item)]
                       ELSE [ghost EXCEPT !.nones = @ + 1]
    /\ UNCHANGED <<top, kind, text, value, result>>

\* remain() consumes the iterator
BytesTokensRemain ==
    /\ kind = "Bytes"
    /\ iter.type = "Tokens"
    /\ view' = Tokens_remain(iter)
    /\ iter' = NoIter
    /\ ghost' = [ghost EXCEPT !.remain = Some(view')]
    /\ UNCHANGED <<top, kind, text, value, result>>

SpecBytes ==
    /\ Start("Bytes", Buffers, NoCalls)
    /\ [][\/ BytesRange
          \/ BytesRangeFrom
          \/ BytesRangeTo
          \/ BytesSplitAt
          \/ BytesTrySplitAt
          \/ BytesSplit
          \/ BytesSplitNext
          \/ BytesTokens
          \/ BytesTokensNext
          \/ BytesTokensRemain]_vars

\* C4: every view obtained from Bytes::new(buf) by range, range_from,
\* range_to, split_at, try_split_at, split().next, tokens().next and
\* remain lies inside buf, and base_offset is the absolute position of its
\* bytes in buf.
C4_ViewIsSliceAtBaseOffset ==
    kind = "Bytes" =>
        /\ view.base_offset + len(view) <= Len(top)
        /\ view.buf = SubSeq(top, view.base_offset + 1, view.base_offset + len(view))

\* a non-empty token strictly inside the buffer, yielded by the tokenizer
C4_Witness ==
    /\ kind = "Bytes"
    /\ iter.type = "Tokens"
    /\ view.base_offset > 0
    /\ len(view) > 0
    /\ view.base_offset + len(view) < Len(top)
    /\ iter.bytes.base_offset = view.base_offset + len(view)

(***************************************************************************)
(* BoardRow: a row field is assembled byte by byte and handed to           *)
(* BoardRow::parse.                                                        *)
(***************************************************************************)
RowAppendByte ==
    /\ kind = "BoardRow"
    /\ result = NoResult
    /\ Len(text) < MaxRowLen
    /\ \E c \in {"1", "4", "5", "9", "P", "k", "+", "0"} : text' = Append(text, c)
    /\ UNCHANGED <<top, view, iter, kind, value, result, ghost>>

RowParse ==
    /\ kind = "BoardRow"
    /\ result = NoResult
    /\ result' = BoardRow_parse(Bytes_new(text))
    /\ UNCHANGED <<top, view, iter, kind, text, value, ghost>>

SpecBoardRow ==
    /\ Start("BoardRow", {<< >>}, << >>)
    /\ [][RowAppendByte \/ RowParse]_vars

(***************************************************************************)
(* Board: either a text is assembled from row fields and decoded, or a     *)
(* Board value is built by square assignment, formatted, and the text      *)
(* decoded again.                                                          *)
(***************************************************************************)
BlankRowText == <<"9">>

NumSpecial(fields) == Cardinality({ i \in 1..Len(fields) : fields[i] # BlankRowText })

BoardAppendField ==
    /\ kind = "Board"
    /\ value = NoValue
    /\ result = NoResult
    /\ Len(ghost.fields) < MaxFields
    /\ \E f \in {BlankRowText, <<"2", "+", "p", "5", "K">>, << >>, <<"9", "P">>} :
          /\ f # BlankRowText => NumSpecial(ghost.fields) < MaxSpecial
          /\ ghost' = [ghost EXCEPT !.fields = Append(@, f)]
          /\ text' = IF ghost.fields = << >> THEN f ELSE text \o <<"/">> \o f
    /\ UNCHANGED <<top, view, iter, kind, value, result>>

\* Board::empty() or Board::startpos()
BoardNew ==
    /\ kind = "Board"
    /\ value = NoValue
    /\ result = NoResult
    /\ ghost.fields = << >>
    /\ \E b \in {Board_empty, Board_startpos} : value' = Some(b)
    /\ UNCHANGED <<top, view, iter, kind, text, result, ghost>>

\* board[sq] = pc
BoardPlace ==
    /\ kind = "Board"
    /\ value.some
    /\ ~ghost.formatted
    /\ ghost.placed < MaxPlaced
    /\ \E sq \in {0, 1, 2, 8, 40, 80},
          pc \in {Piece_new(SENTE, "Pawn"), Piece_new(GOTE, "Horse"), Piece_new(GOTE, "King"),
                  Piece_new(SENTE, "Dragon"), NoPiece} :
          value' = Some(Board_index_mut(value.v, sq, pc))
    /\ ghost' = [ghost EXCEPT !.placed = @ + 1]
    /\ UNCHANGED <<top, view, iter, kind, text, result>>

BoardToString ==
    /\ kind = "Board"
    /\ value.some
    /\ ~ghost.formatted
    /\ text' = Board_fmt(value.v)
    /\ ghost' = [ghost EXCEPT !.formatted = TRUE]
    /\ UNCHANGED <<top, view, iter, kind, value, result>>

BoardFromStr ==
    /\ kind = "Board"
    /\ result = NoResult
    /\ value.some => ghost.formatted
    /\ result' = parser_complete(Board_parse(Bytes_new(text)))
    /\ UNCHANGED <<top, view, iter, kind, text, value, ghost>>

SpecBoard ==
    /\ Start("Board", {<< >>}, [fields |-> << >>, placed |-> 0, formatted |-> FALSE])
    /\ [][\/ BoardAppendField
          \/ BoardNew
          \/ BoardPlace
          \/ BoardToString
          \/ BoardFromStr]_vars

\* C1: every decode entry point ends with Ok or with an InvalidInput or
\* Extra error; no input reaches a panic, in particular not a board row whose
\* elements already fill 9 columns and that goes on with a piece letter.
C1_DecodeNeverPanics ==
    result # NoResult => result.kind \in {"Ok", "InvalidInput", "Extra"}

(***************************************************************************)
(* The row grammar as the claims state it: an element is a digit '1'..'9'  *)
(* (as wide as its value) or a Piece (one column wide).                    *)
(***************************************************************************)
RawPieceLetters ==
    {"P", "L", "N", "S", "B", "R", "G", "K", "p", "l", "n", "s", "b", "r", "g", "k"}

PromotablePieceLetters == RawPieceLetters \ {"G", "K", "g", "k"}

\* the widths of the elements of a row text from byte i on; -1 closes the
\* list where no element starts
RECURSIVE RowWidths(_, _)
RowWidths(s, i) ==
    IF i > Len(s) THEN << >>
    ELSE IF IsDigit19(s[i]) THEN <<DigitVal(s[i])>> \o RowWidths(s, i + 1)
    ELSE IF s[i] \in RawPieceLetters THEN <<1>> \o RowWidths(s, i + 1)
    ELSE IF s[i] = "+" /\ i < Len(s) /\ s[i + 1] \in PromotablePieceLetters
         THEN <<1>> \o RowWidths(s, i + 2)
    ELSE <<-1>>

RECURSIVE SumTo(_, _)
SumTo(w, k) == IF k = 0 THEN 0 ELSE w[k] + SumTo(w, k - 1)

AllElements(w) == \A i \in 1..Len(w) : w[i] >= 1

IsValidRowText(s) ==
    Len(s) > 0 /\ AllElements(RowWidths(s, 1)) /\ SumTo(RowWidths(s, 1), Len(RowWidths(s, 1))) = 9

\* C6: a row field is accepted iff it is non-empty, made of digits '1'..'9'
\* and pieces, and its widths sum to exactly 9; where the running column
\* count exceeds 9 at an element (digit or piece) the result is InvalidInput
\* "more than 9 columns"; where the field ends below 9 it is InvalidInput
\* "less than 9 columns".
C6_BoardRowAcceptance ==
    (kind = "BoardRow" /\ result # NoResult) =>
        LET w == RowWidths(text, 1)
        IN /\ result.kind = "Ok" <=> IsValidRowText(text)
           /\ (\E k \in 1..Len(w) : (\A j \in 1..k : w[j] >= 1) /\ SumTo(w, k) > 9)
                 => /\ result.kind = "InvalidInput"
                    /\ result.description = "board row has more than 9 columns"
           /\ (Len(text) > 0 /\ AllElements(w) /\ SumTo(w, Len(w)) < 9)
                 => /\ result.kind = "InvalidInput"
                    /\ result.description = "board row has less than 9 columns"

\* the rows that Board::parse examines are all valid rows
C7_ExaminedRowsValid ==
    \A i \in 1..Min(Len(ghost.fields), 9) : IsValidRowText(ghost.fields[i])

\* the offset right after the 9th row field
C7_OffsetAfterNinthRow ==
    LET lens == [i \in 1..9 |-> Len(ghost.fields[i])]
    IN SumTo(lens, 9) + 8

C7_Decoded ==
    /\ kind = "Board"
    /\ value = NoValue
    /\ result # NoResult
    /\ Len(ghost.fields) >= 1
    /\ C7_ExaminedRowsValid

\* C7 as the spec states it: fewer than nine fields give InvalidInput at
\* the offset of the board field, more than nine fields give InvalidInput at
\* the offset right after the 9th row.
C7_Original ==
    C7_Decoded =>
        /\ Len(ghost.fields) < 9 =>
              result.kind = "InvalidInput" /\ result.offset = 0
        /\ Len(ghost.fields) > 9 =>
              result.kind = "InvalidInput" /\ result.offset = C7_OffsetAfterNinthRow

\* C7 amended: exactly nine row fields are required; with fewer and with
\* more than nine fields alike the result is InvalidInput whose offset is
\* the offset of the whole board field.
C7_RowCountErrorsAtBoardOffset ==
    C7_Decoded =>
        /\ Len(ghost.fields) = 9 => result.kind = "Ok"
        /\ Len(ghost.fields) < 9 =>
              /\ result.kind = "InvalidInput"
              /\ result.offset = 0
              /\ result.description = "board has less than 9 rows"
        /\ Len(ghost.fields) > 9 =>
              /\ result.kind = "InvalidInput"
              /\ result.offset = 0
              /\ result.description = "board has more than 9 rows"

\* nine valid rows and a trailing '/', rejected
C7_Witness ==
    /\ C7_Decoded
    /\ Len(ghost.fields) = 10
    /\ ghost.fields[10] = << >>
    /\ \E i \in 1..9 : ghost.fields[i] # BlankRowText
    /\ result.kind = "InvalidInput"

(***************************************************************************)
(* The shape of a formatted board, read off the text alone.                *)
(***************************************************************************)
\* the fields of s between the occurrences of "/", from byte i on
RECURSIVE SlashFields(_, _, _)
SlashFields(s, i, cur) ==
    IF i > Len(s) THEN <<cur>>
    ELSE IF s[i] = "/" THEN <<cur>> \o SlashFields(s, i + 1, << >>)
    ELSE SlashFields(s, i + 1, Append(cur, s[i]))

\* the digits of a row text, as numbers, in order
RECURSIVE DigitsOf(_, _)
DigitsOf(s, i) ==
    IF i > Len(s) THEN << >>
    ELSE IF IsDigit09(s[i]) THEN <<DigitVal(s[i])>> \o DigitsOf(s, i + 1)
    ELSE DigitsOf(s, i + 1)

NumPieceLetters(s) == Cardinality({ i \in 1..Len(s) : s[i] \in RawPieceLetters })

\* the lengths of the maximal runs of empty squares of a row, from column c on
RECURSIVE EmptyRuns(_, _)
EmptyRuns(board_row, c) ==
    IF c > 8 THEN << >>
    ELSE IF board_row[c] # NoPiece THEN EmptyRuns(board_row, c + 1)
    ELSE LET e == CHOOSE e \in c..8 :
                      /\ \A j \in c..e : board_row[j] = NoPiece
                      /\ e = 8 \/ board_row[e + 1] # NoPiece
         IN <<e - c + 1>> \o EmptyRuns(board_row, e + 1)

\* C9: the text of a Board is nine row texts joined by eight '/'; in a row
\* text no two digits are adjacent, the digits are the lengths of the
\* maximal runs of empty squares, and digits plus pieces add up to 9.
C9_BoardTextShape ==
    (kind = "Board" /\ value.some /\ ghost.formatted) =>
        LET rows == SlashFields(text, 1, << >>)
        IN /\ Len(rows) = 9
           /\ Cardinality({ i \in 1..Len(text) : text[i] = "/" }) = 8
           /\ \A r \in 1..Len(rows) :
                 /\ \A i \in 1..(Len(rows[r]) - 1) :
                       ~(IsDigit09(rows[r][i]) /\ IsDigit09(rows[r][i + 1]))
                 /\ r <= 9 => DigitsOf(rows[r], 1) = EmptyRuns(value.v[r - 1], 0)
                 /\ SumTo(DigitsOf(rows[r], 1), Len(DigitsOf(rows[r], 1)))
                       + NumPieceLetters(rows[r]) = 9

\* a formatted board with a row of three separate runs of blanks and a row
\* whose only piece splits it into two runs of four
C9_Witness ==
    /\ kind = "Board"
    /\ value.some
    /\ ghost.formatted
    /\ \E r \in 0..8 : Len(EmptyRuns(value.v[r], 0)) >= 3
    /\ \E r \in 0..8 : EmptyRuns(value.v[r], 0) = <<4, 4>>

\* C10: for every Board b, Board::from_str(b.to_string()) is Ok(b).
C10_BoardRoundTrip ==
    (kind = "Board" /\ value.some /\ result # NoResult) =>
        result = [kind |-> "Ok", value |-> value.v]

\* a board other than the two constructors', with a promoted piece on it,
\* formatted and decoded
C10_Witness ==
    /\ kind = "Board"
    /\ value.some
    /\ result.kind = "Ok"
    /\ value.v \notin {Board_empty, Board_startpos}
    /\ \E sq \in 0..80 : Board_index(value.v, sq) = Piece_new(GOTE, "Horse")
    /\ \E sq \in 0..80 :
          Board_index(value.v, sq) = NoPiece /\ Board_index(Board_startpos, sq) # NoPiece

(***************************************************************************)
(* Hands: either a text is assembled from hand elements and decoded, or a  *)
(* Hands value is built by assignment of counts, formatted, and the text   *)
(* decoded again.                                                          *)
(***************************************************************************)
HandsAppendElem ==
    /\ kind = "Hands"
    /\ value = NoValue
    /\ result = NoResult
    /\ Len(ghost.elems) < MaxElems
    /\ \E e \in
          { [text |-> <<"P">>, side |-> SENTE, hpk |-> "Pawn", count |-> 1],
            [text |-> <<"2", "P">>, side |-> SENTE, hpk |-> "Pawn", count |-> 2],
            [text |-> <<"9", "9", "P">>, side |-> SENTE, hpk |-> "Pawn", count |-> 99],
            [text |-> <<"5", "8", "P">>, side |-> SENTE, hpk |-> "Pawn", count |-> 58],
            [text |-> <<"p">>, side |-> GOTE, hpk |-> "Pawn", count |-> 1],
            [text |-> <<"1", "0", "p">>, side |-> GOTE, hpk |-> "Pawn", count |-> 10],
            [text |-> <<"R">>, side |-> SENTE, hpk |-> "Rook", count |-> 1],
            [text |-> <<"9", "0", "g">>, side |-> GOTE, hpk |-> "Gold", count |-> 90],
            [text |-> <<"1", "B">>, side |-> SENTE, hpk |-> "Bishop", count |-> 1] } :
          /\ text' = text \o e.text
          /\ ghost' = [ghost EXCEPT !.elems = Append(@, e)]
    /\ UNCHANGED <<top, view, iter, kind, value, result>>

HandsAppendRaw ==
    /\ kind = "Hands"
    /\ value = NoValue
    /\ result = NoResult
    /\ ~ghost.raw
    /\ \E c \in {"-", "0", "?", "1", "K", "k"} : text' = Append(text, c)
    /\ ghost' = [ghost EXCEPT !.raw = TRUE]
    /\ UNCHANGED <<top, view, iter, kind, value, result>>

\* Hands::empty()
HandsNew ==
    /\ kind = "Hands"
    /\ value = NoValue
    /\ result = NoResult
    /\ text = << >>
    /\ value' = Some(Hands_empty)
    /\ UNCHANGED <<top, view, iter, kind, text, result, ghost>>

\* hands[side][hpk] = n
HandsSet ==
    /\ kind = "Hands"
    /\ value.some
    /\ ~ghost.formatted
    /\ ghost.set < MaxSet
    /\ \E side \in {SENTE, GOTE}, hpk \in {"Rook", "Gold", "Pawn"}, n \in {0, 1, 2, 100, 255} :
          value' = Some([value.v EXCEPT ![side][hpk] = n])
    /\ ghost' = [ghost EXCEPT !.set = @ + 1]
    /\ UNCHANGED <<top, view, iter, kind, text, result>>

HandsToString ==
    /\ kind = "Hands"
    /\ value.some
    /\ ~ghost.formatted
    /\ text' = Hands_fmt(value.v)
    /\ ghost' = [ghost EXCEPT !.formatted = TRUE]
    /\ UNCHANGED <<top, view, iter, kind, value, result>>

HandsFromStr ==
    /\ kind = "Hands"
    /\ result = NoResult
    /\ value.some => ghost.formatted
    /\ result' = parser_complete(Hands_parse(Bytes_new(text)))
    /\ UNCHANGED <<top, view, iter, kind, text, value, ghost>>

SpecHands ==
    /\ Start("Hands", {<< >>}, [elems |-> << >>, raw |-> FALSE, set |-> 0, formatted |-> FALSE])
    /\ [][\/ HandsAppendElem
          \/ HandsAppendRaw
          \/ HandsNew
          \/ HandsSet
          \/ HandsToString
          \/ HandsFromStr]_vars

\* the sum of the counts of the first k elements that name side and hpk
RECURSIVE ElemSum(_, _, _, _)
ElemSum(elems, k, side, hpk) ==
    IF k = 0 THEN 0
    ELSE ElemSum(elems, k - 1, side, hpk)
         + (IF elems[k].side = side /\ elems[k].hpk = hpk THEN elems[k].count ELSE 0)

\* C5: after a sequence of hand elements is decoded, the count stored for
\* each (side, kind) is min(255, sum of the counts of the elements naming
\* it), whatever the order of the elements; the count never wraps and the
\* magnitude of the sum never makes the decoding fail.
C5_CountsSaturate ==
    (kind = "Hands" /\ value = NoValue /\ result # NoResult
        /\ ~ghost.raw /\ ghost.elems # << >>) =>
        /\ result.kind = "Ok"
        /\ \A side \in {SENTE, GOTE}, hpk \in HandKinds :
              result.value[side][hpk]
                  = Min(255, ElemSum(ghost.elems, Len(ghost.elems), side, hpk))

\* elements of one (side, kind) that sum to 256, stored as 255
C5_Witness ==
    /\ kind = "Hands"
    /\ value = NoValue
    /\ ~ghost.raw
    /\ result.kind = "Ok"
    /\ ElemSum(ghost.elems, Len(ghost.elems), SENTE, "Pawn") = 256
    /\ result.value[SENTE]["Pawn"] = 255

\* the 14 (side, kind) pairs in the order of the SFEN text, with their letters
HandSlots ==
    << <<SENTE, "Rook", "R">>, <<SENTE, "Bishop", "B">>, <<SENTE, "Gold", "G">>,
       <<SENTE, "Silver", "S">>, <<SENTE, "Knight", "N">>, <<SENTE, "Lance", "L">>,
       <<SENTE, "Pawn", "P">>,
       <<GOTE, "Rook", "r">>, <<GOTE, "Bishop", "b">>, <<GOTE, "Gold", "g">>,
       <<GOTE, "Silver", "s">>, <<GOTE, "Knight", "n">>, <<GOTE, "Lance", "l">>,
       <<GOTE, "Pawn", "p">> >>

\* the decimal text of a count 0..255
Decimal3(n) ==
    IF n >= 100
    THEN <<DigitChars[(n \div 100) + 1], DigitChars[((n \div 10) % 10) + 1],
           DigitChars[(n % 10) + 1]>>
    ELSE IF n >= 10
         THEN <<DigitChars[(n \div 10) + 1], DigitChars[(n % 10) + 1]>>
         ELSE <<DigitChars[n + 1]>>

RECURSIVE HandsTextFrom(_, _)
HandsTextFrom(hands, k) ==
    IF k > Len(HandSlots) THEN << >>
    ELSE LET n == hands[HandSlots[k][1]][HandSlots[k][2]]
         IN (IF n = 0 THEN << >>
             ELSE IF n = 1 THEN <<HandSlots[k][3]>>
             ELSE Decimal3(n) \o <<HandSlots[k][3]>>)
            \o HandsTextFrom(hands, k + 1)

\* C8: the text of a Hands value is "-" iff all 14 counts are zero;
\* otherwise it lists, first-mover before second-mover and in the order rook,
\* bishop, gold, silver, knight, lance, pawn, one element per non-zero count:
\* the letter alone for a count of 1, the decimal count and the letter above.
C8_HandsTextFormat ==
    (kind = "Hands" /\ value.some /\ ghost.formatted) =>
        LET allzero == \A side \in {SENTE, GOTE}, hpk \in HandKinds :
                           value.v[side][hpk] = 0
        IN /\ text = <<"-">> <=> allzero
           /\ ~allzero => text = HandsTextFrom(value.v, 1)

\* a formatted value with a count of 1, a count of 255 and pieces of both sides
C8_Witness ==
    /\ kind = "Hands"
    /\ value.some
    /\ ghost.formatted
    /\ value.v[SENTE]["Pawn"] = 255
    /\ value.v[SENTE]["Rook"] = 1
    /\ value.v[GOTE]["Gold"] = 2

\* the offset of the first byte of s, from the i-th byte on, at which no
\* hand element [1-9][0-9]?[PLNSBRGplnsbrg] (the count optional) can be
\* continued, or -1 if s is a concatenation of such elements
RECURSIVE HandsFirstBad(_, _)
HandsFirstBad(s, i) ==
    IF i > Len(s) THEN -1
    ELSE LET at(j) == IF j <= Len(s) THEN s[j] ELSE ""
             l == IF IsDigit19(at(i)) THEN (IF IsDigit09(at(i + 1)) THEN i + 2 ELSE i + 1) ELSE i
         IN IF at(l) \in {"P", "L", "N", "S", "B", "R", "G", "p", "l", "n", "s", "b", "r", "g"}
            THEN HandsFirstBad(s, l + 1)
            ELSE l - 1

\* C20: Hands::from_str accepts exactly "-" and the non-empty concatenations
\* of hand elements; every other string gives InvalidInput, never Extra, at
\* the offset of the first byte at which no hand element can be continued.
C20_HandsAcceptance ==
    (kind = "Hands" /\ value = NoValue /\ result # NoResult) =>
        IF text = <<"-">> \/ (text # << >> /\ HandsFirstBad(text, 1) = -1)
        THEN result.kind = "Ok"
        ELSE /\ result.kind = "InvalidInput"
             /\ result.offset = (IF text = << >> THEN 0 ELSE HandsFirstBad(text, 1))

\* "R1B?" was rejected at the '?', offset 3
C20_Witness ==
    /\ kind = "Hands"
    /\ value = NoValue
    /\ text = <<"R", "1", "B", "?">>
    /\ result.kind = "InvalidInput"
    /\ result.offset = 3

(***************************************************************************)
(* Position: a text is assembled token by token and decoded; a decoded     *)
(* Position is formatted and the text decoded again.                       *)
(***************************************************************************)
\* the tokens offered for the Board (3), Side (4), Hands (5) and ply (6)
\* fields, and after the position (7)
FieldTokens(stage) ==
    CASE stage = 3 ->
           { <<"9", "/", "9", "/", "9", "/", "9", "/", "9", "/", "9", "/", "9", "/", "9", "/", "9">>,
             <<"l", "n", "s", "g", "k", "g", "s", "n", "l", "/", "1", "r", "5", "b", "1", "/", "p", "p", "p", "p", "p", "p", "p", "p", "p", "/", "9", "/", "9", "/", "9", "/", "P", "P", "P", "P", "P", "P", "P", "P", "P", "/", "1", "B", "5", "R", "1", "/", "L", "N", "S", "G", "K", "G", "S", "N", "L">>,
             <<"9", "/", "9", "/", "9", "/", "9", "/", "4", "+", "p", "4", "/", "9", "/", "9", "/", "9", "/", "K", "7", "l">>,
             <<"9", "/", "9">>,
             <<"9", "/", "x", "/", "9">> }
      [] stage = 4 -> { <<"b">>, <<"w">>, <<"b", "w">>, <<"x">> }
      [] stage = 5 ->
           { <<"-">>, <<"P">>, <<"2", "P", "b", "3", "p">>, <<"9", "9", "P", "1", "P">>,
             <<"9", "9", "P", "9", "9", "P", "9", "9", "P">>, <<"R", "-">> }
      [] stage = 6 ->
           { <<"1">>, <<"1", "2">>, <<"+", "0", "0", "1", "2">>, <<"0">>, <<"6", "5", "5", "3", "6">>,
             <<"4", "2", "9", "4", "9", "6", "7", "2", "9", "5">>, <<"4", "2", "9", "4", "9", "6", "7", "2", "9", "6">>,
             <<"1", "x">>, <<"-", "1">>, <<"+">>, <<"0", "0">> }
      [] stage = 7 -> { MovesWord, <<"1">> }

EndsWithSpace(t) == IF t = << >> THEN FALSE ELSE t[Len(t)] = " "

\* the text with one more token, a single space before it unless the text
\* is empty or ends with one
AppendToken(t, tok) == IF t = << >> \/ EndsWithSpace(t) THEN t \o tok ELSE t \o <<" ">> \o tok

\* ghost.stage: 0 nothing yet, 1 after "position", 2 after "sfen", 3 after
\* the board, 4 after the side, 5 after the hands, 6 after the ply or
\* "startpos", 7 after a further token
PositionAppendSpace ==
    /\ kind = "Position"
    /\ value = NoValue
    /\ result = NoResult
    /\ ~EndsWithSpace(text)
    /\ text' = Append(text, " ")
    /\ UNCHANGED <<top, view, iter, kind, value, result, ghost>>

PositionAppendWord ==
    /\ kind = "Position"
    /\ value = NoValue
    /\ result = NoResult
    /\ \/ /\ ghost.stage = 0
          /\ text' = AppendToken(text, PositionWord)
          /\ ghost' = [ghost EXCEPT !.stage = 1]
       \/ /\ ghost.stage \in {0, 1}
          /\ text' = AppendToken(text, SfenWord)
          /\ ghost' = [ghost EXCEPT !.stage = 2]
       \/ /\ ghost.stage \in {0, 1}
          /\ text' = AppendToken(text, StartposWord)
          /\ ghost' = [ghost EXCEPT !.stage = 6]
    /\ UNCHANGED <<top, view, iter, kind, value, result>>

\* the next field: the board may come first, after "position" or after "sfen"
PositionAppendField ==
    /\ kind = "Position"
    /\ value = NoValue
    /\ result = NoResult
    /\ ghost.stage < 7
    /\ LET next == IF ghost.stage < 3 THEN 3 ELSE ghost.stage + 1
       IN /\ \E tok \in FieldTokens(next) : text' = AppendToken(text, tok)
          /\ ghost' = [ghost EXCEPT !.stage = next]
    /\ UNCHANGED <<top, view, iter, kind, value, result>>

PositionFromStr ==
    /\ kind = "Position"
    /\ result = NoResult
    /\ result' = parser_complete(Position_parse(Bytes_new(text)))
    /\ UNCHANGED <<top, view, iter, kind, text, value, ghost>>

\* to_string() of the Position that from_str returned
PositionToString ==
    /\ kind = "Position"
    /\ value = NoValue
    /\ result.kind = "Ok"
    /\ value' = Some(result.value)
    /\ text' = Position_fmt(result.value)
    /\ result' = NoResult
    /\ UNCHANGED <<top, view, iter, kind, ghost>>

SpecPosition ==
    /\ Start("Position", {<< >>}, [stage |-> 0])
    /\ [][\/ PositionAppendSpace
          \/ PositionAppendWord
          \/ PositionAppendField
          \/ PositionFromStr
          \/ PositionToString]_vars

\* C2: for every string s that Position::from_str accepts, decoding the text
\* of the decoded Position succeeds and yields an equal Position, also where
\* hand elements accumulate to a count of 100..255.
C2_PositionRoundTrip ==
    (kind = "Position" /\ value.some /\ result # NoResult) =>
        result = [kind |-> "Ok", value |-> value.v]

\* the tokens of a text, each with the offset of its first byte: the maximal
\* runs of bytes other than the ASCII space
RECURSIVE TokenList(_, _)
TokenList(s, i) ==
    IF i > Len(s) THEN << >>
    ELSE IF s[i] = " " THEN TokenList(s, i + 1)
    ELSE LET e == CHOOSE e \in i..Len(s) :
                      /\ \A j \in i..e : s[j] # " "
                      /\ e = Len(s) \/ s[e + 1] = " "
         IN << [start |-> i - 1, buf |-> SubSeq(s, i, e)] >> \o TokenList(s, e + 1)

\* the canonical starting position: first-mover to move, starting board,
\* empty hands, ply 1
CanonicalStart ==
    [side_to_move |-> SENTE, board |-> Board_startpos, hands |-> Hands_empty, ply |-> U32(0, 1)]

\* both decoders applied to a text: Position::from_str and Kifu::from_str
BothFromStr(s) ==
    << parser_complete(Position_parse(Bytes_new(s))), parser_complete(Kifu_parse(Bytes_new(s))) >>

\* C12: a text 'Board Side Hands Ply' that decodes, and the same text after
\* "sfen ", "position " and "position sfen ", all decode, as Position and as
\* Kifu, to the same value; "startpos" and "position startpos" decode to
\* the canonical starting position.
C12_OptionalPrefixes ==
    (kind = "Position" /\ value = NoValue /\ result.kind = "Ok") =>
        LET toks == TokenList(text, 1)
            both == << result, [kind |-> "Ok", value |-> [pos |-> result.value, mvs |-> << >>]] >>
        IN /\ toks[1].buf \notin {PositionWord, SfenWord, StartposWord} =>
                 /\ BothFromStr(text) = both
                 /\ BothFromStr(<<"s", "f", "e", "n", " ">> \o text) = both
                 /\ BothFromStr(<<"p", "o", "s", "i", "t", "i", "o", "n", " ">> \o text) = both
                 /\ BothFromStr(<<"p", "o", "s", "i", "t", "i", "o", "n", " ", "s", "f", "e", "n", " ">> \o text)
                       = both
           /\ toks[Len(toks)].buf = StartposWord =>
                 /\ result.value = CanonicalStart
                 /\ BothFromStr(StartposWord) = both
                 /\ BothFromStr(<<"p", "o", "s", "i", "t", "i", "o", "n", " ">> \o StartposWord) = both

\* C15: the text of a Position is exactly "startpos" iff the position equals
\* the canonical starting position in all four fields; the text of every
\* other position is "sfen " and the Board, Side, Hands and ply texts with
\* single spaces between them; it never begins with "position".
C15_StartposOnlyWhenCanonical ==
    (kind = "Position" /\ value.some) =>
        /\ (text = <<"s", "t", "a", "r", "t", "p", "o", "s">>) <=> (value.v = CanonicalStart)
        /\ value.v # CanonicalStart =>
              text = <<"s", "f", "e", "n", " ">> \o Board_fmt(value.v.board) \o <<" ">>
                     \o Side_fmt(value.v.side_to_move) \o <<" ">>
                     \o Hands_fmt(value.v.hands) \o <<" ">>
                     \o u32_fmt(value.v.ply)
        /\ SubSeq(text, 1, 8) # <<"p", "o", "s", "i", "t", "i", "o", "n">>

\* a position with the starting board, empty hands and ply 1 but the second
\* mover to move was formatted
C15_Witness ==
    /\ kind = "Position"
    /\ value.some
    /\ value.v = [CanonicalStart EXCEPT !.side_to_move = GOTE]
    /\ SubSeq(text, 1, 5) = <<"s", "f", "e", "n", " ">>

\* the input ends before Position parsing has all its tokens: after
\* "position", after "sfen", or before one of Board, Side, Hands and ply,
\* the fields before the end being valid
EndsEarly(s) ==
    LET toks == TokenList(s, 1)
        tok(i) == IF i <= Len(toks) THEN toks[i].buf ELSE << >>
        p == IF tok(1) = PositionWord THEN 1 ELSE 0
        q == IF tok(p + 1) = SfenWord THEN p + 1 ELSE p
        n == Len(toks) - q
    IN /\ tok(p + 1) # StartposWord
       /\ n < 4
       /\ n >= 1 => parser_complete(Board_parse(Bytes_new(tok(q + 1)))).kind = "Ok"
       /\ n >= 2 => parser_complete(Side_parse(Bytes_new(tok(q + 2)))).kind = "Ok"
       /\ n >= 3 => parser_complete(Hands_parse(Bytes_new(tok(q + 3)))).kind = "Ok"

\* C18: when the input ends before Position parsing has read all the tokens
\* it needs, the result is InvalidInput "premature end of position" whose
\* offset is the byte length of the whole input, trailing spaces included;
\* the empty string gives offset 0.
C18_PrematureEndAtInputLength ==
    (kind = "Position" /\ value = NoValue /\ result # NoResult /\ EndsEarly(text)) =>
        result = [kind |-> "InvalidInput",
                  offset |-> Len(text),
                  description |-> "premature end of position"]

\* a text of three tokens and a space after them, the ply missing, was decoded
C18_Witness ==
    /\ kind = "Position"
    /\ value = NoValue
    /\ result # NoResult
    /\ EndsEarly(text)
    /\ Len(TokenList(text, 1)) >= 3
    /\ text[Len(text)] = " "

\* a token without its leading zeros
RECURSIVE StripZeros(_)
StripZeros(t) == IF t # << >> /\ t[1] = "0" THEN StripZeros(Tail(t)) ELSE t

\* the number a string of at most five decimal digits denotes
RECURSIVE DecVal(_)
DecVal(d) == IF d = << >> THEN 0 ELSE 10 * DecVal(SubSeq(d, 1, Len(d) - 1)) + DigitVal(d[Len(d)])

\* a token of decimal digits written as n = high * 100000 + low
PlyHigh(t) == LET d == StripZeros(t) IN DecVal(SubSeq(d, 1, Len(d) - 5))

PlyLow(t) == LET d == StripZeros(t) IN DecVal(SubSeq(d, IF Len(d) > 5 THEN Len(d) - 4 ELSE 1, Len(d)))

\* a string of decimal digits that denotes an n with 1 <= n <= 4294967295
IsPlyText(t) ==
    /\ t # << >>
    /\ \A i \in 1..Len(t) : IsDigit09(t[i])
    /\ StripZeros(t) # << >>
    /\ Len(StripZeros(t)) <= 10
    /\ PlyHigh(t) < 42949 \/ (PlyHigh(t) = 42949 /\ PlyLow(t) <= 67295)

\* C19: Position parsing accepts a ply token iff it is a string of decimal
\* digits that denotes an n with 1 <= n <= 4294967295, and then stores n;
\* every other ply token (zero, beyond 32 bits, with a byte that is not a
\* digit, a leading sign included) gives InvalidInput at the offset of the
\* token's first byte.
C19_PlyIsDecimalNonZeroU32 ==
    (kind = "Position" /\ value = NoValue /\ result # NoResult) =>
        LET toks == TokenList(text, 1)
            tok(i) == IF i <= Len(toks) THEN toks[i].buf ELSE << >>
            p == IF tok(1) = PositionWord THEN 1 ELSE 0
            q == IF tok(p + 1) = SfenWord THEN p + 1 ELSE p
            ply == tok(q + 4)
        IN (/\ tok(p + 1) # StartposWord
            /\ Len(toks) >= q + 4
            /\ parser_complete(Board_parse(Bytes_new(tok(q + 1)))).kind = "Ok"
            /\ parser_complete(Side_parse(Bytes_new(tok(q + 2)))).kind = "Ok"
            /\ parser_complete(Hands_parse(Bytes_new(tok(q + 3)))).kind = "Ok") =>
               IF IsPlyText(ply)
               THEN /\ result.kind = (IF Len(toks) = q + 4 THEN "Ok" ELSE "Extra")
                    /\ result.kind = "Ok" =>
                          \* hi * 65536 + lo = high * 100000 + low, both sides divided by 32
                          /\ (result.value.ply.lo - PlyLow(ply)) % 32 = 0
                          /\ (result.value.ply.lo - PlyLow(ply)) \div 32
                                = 3125 * PlyHigh(ply) - 2048 * result.value.ply.hi
               ELSE /\ result.kind = "InvalidInput"
                    /\ result.offset = toks[q + 4].start

\* a text without prefix, with pieces in hand and a ply above 1, was decoded
C12_Witness ==
    /\ kind = "Position"
    /\ value = NoValue
    /\ result.kind = "Ok"
    /\ text[1] = "9"
    /\ result.value.hands[GOTE]["Pawn"] = 3
    /\ result.value.ply = U32(0, 12)

\* C21: Position parsing accepts the side-to-move token only if the whole
\* token is "b" or "w"; a token that begins with 'b' or 'w' and has further
\* bytes, like every other token, makes the position parse fail.
C21_SideTokenExact ==
    (kind = "Position" /\ value = NoValue /\ result # NoResult) =>
        LET toks == TokenList(text, 1)
            tok(i) == IF i <= Len(toks) THEN toks[i].buf ELSE << >>
            p == IF tok(1) = PositionWord THEN 1 ELSE 0
            q == IF tok(p + 1) = SfenWord THEN p + 1 ELSE p
        IN (/\ tok(p + 1) # StartposWord
            /\ Len(toks) >= q + 2
            /\ parser_complete(Board_parse(Bytes_new(tok(q + 1)))).kind = "Ok") =>
               (tok(q + 2) \in {<<"b">>, <<"w">>} \/ result.kind = "InvalidInput")

\* C26: when the first token of Board, Side, Hands and ply that fails is the
\* Board or the Hands token, Position::from_str and Kifu::from_str return
\* the error that Board::from_str or Hands::from_str returns for the token
\* alone, kind and description unchanged and the offset increased by the
\* offset of the token in the input, whatever the later tokens are.
C26_ComponentErrorsUnchanged ==
    (kind = "Position" /\ value = NoValue /\ result # NoResult) =>
        LET toks == TokenList(text, 1)
            tok(i) == IF i <= Len(toks) THEN toks[i].buf ELSE << >>
            p == IF tok(1) = PositionWord THEN 1 ELSE 0
            q == IF tok(p + 1) = SfenWord THEN p + 1 ELSE p
            board == parser_complete(Board_parse(Bytes_new(tok(q + 1))))
            side == parser_complete(Side_parse(Bytes_new(tok(q + 2))))
            hands == parser_complete(Hands_parse(Bytes_new(tok(q + 3))))
            moved(r, d) == [r EXCEPT !.offset = @ + d]
        IN (tok(p + 1) # StartposWord /\ Len(toks) >= q + 1) =>
              /\ board.kind = "InvalidInput" =>
                    /\ result = moved(board, toks[q + 1].start)
                    /\ BothFromStr(text)[2] = result
              /\ (/\ board.kind = "Ok"
                  /\ Len(toks) >= q + 3
                  /\ side.kind = "Ok"
                  /\ hands.kind = "InvalidInput") =>
                    /\ result = moved(hands, toks[q + 3].start)
                    /\ BothFromStr(text)[2] = result

\* "position sfen", a board, a side, the hands token "R-" and a ply were
\* decoded: the error is at the second byte of the hands token
C26_Witness ==
    /\ kind = "Position"
    /\ value = NoValue
    /\ result.kind = "InvalidInput"
    /\ Len(TokenList(text, 1)) = 6
    /\ TokenList(text, 1)[1].buf = PositionWord
    /\ TokenList(text, 1)[5].buf = <<"R", "-">>
    /\ result.offset = TokenList(text, 1)[5].start + 1

(***************************************************************************)
(* Kifu: a position text, then "moves" and move tokens, decoded; or a Kifu *)
(* built by Kifu::new, formatted, and the text decoded.                    *)
(***************************************************************************)
\* one more ASCII space before the position text or after it, up to MaxPad
\* in a row
KifuAppendSpace ==
    /\ kind = "Kifu"
    /\ value = NoValue
    /\ result = NoResult
    /\ ~ghost.moves
    /\ ghost.tokens = << >>
    /\ IF Len(text) < MaxPad THEN TRUE
       ELSE \E i \in (Len(text) - MaxPad + 1)..Len(text) : text[i] # " "
    /\ text' = Append(text, " ")
    /\ UNCHANGED <<top, view, iter, kind, value, result, ghost>>

KifuAppendPosition ==
    /\ kind = "Kifu"
    /\ value = NoValue
    /\ result = NoResult
    /\ \A i \in 1..Len(text) : text[i] = " "
    /\ \E t \in { StartposWord,
                  AppendToken(PositionWord, StartposWord),
                  <<"s", "f", "e", "n", " ", "9", "/", "9", "/", "9", "/", "9", "/", "9", "/", "9", "/", "9", "/", "9", "/", "9", " ", "w", " ", "2", "P", " ", "3">>,
                  <<"9", "/", "9", "/", "9", "/", "9", "/", "9", "/", "9", "/", "9", "/", "9", "/", "9", " ", "b", " ", "-">> } :
          text' = text \o t
    /\ UNCHANGED <<top, view, iter, kind, value, result, ghost>>

KifuAppendMoves ==
    /\ kind = "Kifu"
    /\ value = NoValue
    /\ result = NoResult
    /\ \E i \in 1..Len(text) : text[i] # " "
    /\ ~ghost.moves
    /\ ghost.tokens = << >>
    /\ text' = AppendToken(text, MovesWord)
    /\ ghost' = [ghost EXCEPT !.moves = TRUE]
    /\ UNCHANGED <<top, view, iter, kind, value, result>>

\* a move token after "moves", or after the position where "moves" belongs
KifuAppendMove ==
    /\ kind = "Kifu"
    /\ value = NoValue
    /\ result = NoResult
    /\ \E i \in 1..Len(text) : text[i] # " "
    /\ Len(ghost.tokens) < MaxMoves
    /\ \E tok \in { <<"7", "g", "7", "f">>, <<"5", "a", "9", "e", "+">>, <<"G", "*", "4", "i">>, <<"7", "g", "7", "f", "x">>,
                    <<"G", "*", "4", "i", "+">>, <<"7", "g", "7">>, <<"K", "*", "1", "a">>, <<"7", "g", "7", "f", "+", "7">> } :
          /\ text' = AppendToken(text, tok)
          /\ ghost' = [ghost EXCEPT !.tokens = Append(@, tok)]
    /\ UNCHANGED <<top, view, iter, kind, value, result>>

\* Kifu::new(pos, mvs) with moves built by Move::walk and Move::drop
KifuNew ==
    /\ kind = "Kifu"
    /\ value = NoValue
    /\ result = NoResult
    /\ text = << >>
    /\ \E pos \in { Position_startpos,
                     Position_new(GOTE, Board_startpos, Hands_empty, U32(0, 1)),
                     Position_new(SENTE, Board_empty, Hands_empty, U32(1, 0)) },
          n \in 0..MaxMoves :
          \E mvs \in [1..n -> { Move_walk(Square_new(2, 6), Square_new(2, 5), FALSE),
                                Move_walk(Square_new(4, 0), Square_new(0, 4), TRUE),
                                Move_walk(Square_new(8, 8), Square_new(0, 0), FALSE),
                                Move_drop("Gold", Square_new(5, 8)),
                                Move_drop("Pawn", Square_new(8, 0)) }] :
             value' = Some(Kifu_new(pos, mvs))
    /\ UNCHANGED <<top, view, iter, kind, text, result, ghost>>

\* to_string() of the Kifu in hand
KifuToString ==
    /\ kind = "Kifu"
    /\ value.some
    /\ result = NoResult
    /\ text = << >>
    /\ text' = Kifu_fmt(value.v)
    /\ UNCHANGED <<top, view, iter, kind, value, result, ghost>>

KifuFromStr ==
    /\ kind = "Kifu"
    /\ result = NoResult
    /\ result' = parser_complete(Kifu_parse(Bytes_new(text)))
    /\ UNCHANGED <<top, view, iter, kind, text, value, ghost>>

SpecKifu ==
    /\ Start("Kifu", {<< >>}, [moves |-> FALSE, tokens |-> << >>])
    /\ [][\/ KifuAppendSpace
          \/ KifuAppendPosition
          \/ KifuAppendMoves
          \/ KifuAppendMove
          \/ KifuNew
          \/ KifuToString
          \/ KifuFromStr]_vars

\* the move grammar: Square Square '+'?, or HandPieceKind '*' Square
IsSquareText(c, r) ==
    /\ c \in {"1", "2", "3", "4", "5", "6", "7", "8", "9"}
    /\ r \in {"a", "b", "c", "d", "e", "f", "g", "h", "i"}

IsWholeMove(tok) ==
    \/ /\ Len(tok) \in {4, 5}
       /\ IsSquareText(tok[1], tok[2])
       /\ IsSquareText(tok[3], tok[4])
       /\ Len(tok) = 5 => tok[5] = "+"
    \/ /\ Len(tok) = 4
       /\ tok[1] \in {"P", "L", "N", "S", "B", "R", "G"}
       /\ tok[2] = "*"
       /\ IsSquareText(tok[3], tok[4])

\* C3: Kifu::from_str succeeds only if every token after "moves" is, in its
\* entirety, one valid Move; a token with bytes beyond the move makes the
\* whole decoding fail.
C3_MoveTokensWhole ==
    (kind = "Kifu" /\ result.kind = "Ok") =>
        \A i \in 1..Len(ghost.tokens) : IsWholeMove(ghost.tokens[i])

\* C13: for every text s that Position::from_str or Kifu::from_str decodes,
\* one more ASCII space before the first token, after the last token or in
\* a gap between tokens gives the same decoded value, never an error.
C13_SpacesIgnored ==
    (kind = "Kifu" /\ value = NoValue /\ result # NoResult) =>
        LET pos == parser_complete(Position_parse(Bytes_new(text)))
        IN \A i \in 0..Len(text) :
              (IF i = 0 \/ i = Len(text) THEN TRUE ELSE text[i] = " " \/ text[i + 1] = " ") =>
                 LET wider == BothFromStr(SubSeq(text, 1, i) \o <<" ">> \o SubSeq(text, i + 1, Len(text)))
                 IN /\ pos.kind = "Ok" => wider[1] = pos
                    /\ result.kind = "Ok" => wider[2] = result

\* a text with a space in front, a gap of two spaces and a move was decoded
C13_Witness ==
    /\ kind = "Kifu"
    /\ value = NoValue
    /\ result.kind = "Ok"
    /\ Len(result.value.mvs) >= 1
    /\ text[1] = " "
    /\ \E i \in 2..(Len(text) - 2) : text[i] = " " /\ text[i + 1] = " "

\* C14: for every decodable position text P, Kifu::from_str(P) and
\* Kifu::from_str(P + " moves") both succeed and yield the same Kifu with an
\* empty move list; the text of a Kifu has the token "moves" iff its move
\* list is not empty.
C14_MovesTokenOptional ==
    /\ (kind = "Kifu" /\ value = NoValue /\ result # NoResult) =>
          LET pos == parser_complete(Position_parse(Bytes_new(text)))
          IN pos.kind = "Ok" =>
                /\ result = [kind |-> "Ok", value |-> [pos |-> pos.value, mvs |-> << >>]]
                /\ parser_complete(Kifu_parse(Bytes_new(text \o <<" ", "m", "o", "v", "e", "s">>))) = result
    /\ (kind = "Kifu" /\ value.some /\ text # << >>) =>
          LET toks == TokenList(text, 1)
          IN (\E i \in 1..Len(toks) : toks[i].buf = <<"m", "o", "v", "e", "s">>) <=> Len(value.v.mvs) # 0

\* a position text with a piece in hand and no "moves" after it was decoded
\* as a Kifu
C14_Witness ==
    /\ kind = "Kifu"
    /\ value = NoValue
    /\ ~ghost.moves
    /\ result.kind = "Ok"
    /\ result.value.pos.hands[SENTE]["Pawn"] = 2
    /\ result.value.mvs = << >>

\* C17: decoding a move from a token that is not in its entirety one Walk
\* or one Drop yields InvalidInput naming "Move expected" at the offset of
\* the token's first byte, however many bytes the Walk or Drop attempt
\* matched (a complete walk and one more byte, three bytes of a walk, ...).
C17_MoveExpectedAtTokenStart ==
    (/\ kind = "Kifu"
     /\ value = NoValue
     /\ result # NoResult
     /\ ghost.moves
     /\ Position_parse(Bytes_new(text)).kind = "Ok") =>
        LET toks == TokenList(text, 1)
            first == Len(toks) - Len(ghost.tokens)
            bad == { i \in 1..Len(ghost.tokens) : ~IsWholeMove(ghost.tokens[i]) }
        IN bad # {} =>
              LET i == CHOOSE i \in bad : \A j \in bad : i <= j
              IN result = [kind |-> "InvalidInput",
                           offset |-> toks[first + i].start,
                           description |-> "Move expected"]

\* C11: for every sequence of moves mvs, decoding the text of
\* Kifu::new(Position::startpos(), mvs) succeeds and yields the starting
\* position with exactly the moves of mvs, in the same order.
C11_KifuRoundTrip ==
    (/\ kind = "Kifu"
     /\ value.some
     /\ value.v.pos = Position_startpos
     /\ text # << >>
     /\ result # NoResult) =>
        /\ result.kind = "Ok"
        /\ result.value.pos = Position_startpos
        /\ Len(result.value.mvs) = Len(value.v.mvs)
        /\ \A i \in 1..Len(value.v.mvs) : result.value.mvs[i] = value.v.mvs[i]

\* the text of a Kifu of two moves, a promoting walk and a drop, was decoded
C11_Witness ==
    /\ kind = "Kifu"
    /\ value.some
    /\ value.v.pos = Position_startpos
    /\ Len(value.v.mvs) = 2
    /\ \E i, j \in 1..2 : /\ value.v.mvs[i].tag = "Walk"
                          /\ value.v.mvs[i].promo
                          /\ value.v.mvs[j].tag = "Drop"
    /\ result.kind = "Ok"

\* C29: Kifu::from_str never returns Extra; when the position is followed by
\* a token other than "moves" the result is InvalidInput "\"moves\" expected"
\* at the offset of that token; when Kifu::parse succeeds the remainder it
\* returns is empty.
C29_KifuReadsToTheEnd ==
    (kind = "Kifu" /\ result # NoResult) =>
        LET toks == TokenList(text, 1)
            tok(i) == IF i <= Len(toks) THEN toks[i].buf ELSE << >>
            p == IF tok(1) = PositionWord THEN 1 ELSE 0
            q == IF tok(p + 1) = SfenWord THEN p + 1 ELSE p
            n == IF tok(p + 1) = StartposWord THEN p + 1 ELSE q + 4
            raw == Kifu_parse(Bytes_new(text))
        IN /\ result.kind # "Extra"
           /\ raw.kind = "Ok" => raw.remain = [buf |-> << >>, base_offset |-> Len(text)]
           /\ (/\ Position_parse(Bytes_new(text)).kind = "Ok"
               /\ Len(toks) > n
               /\ tok(n + 1) # MovesWord) =>
                 result = [kind |-> "InvalidInput",
                           offset |-> toks[n + 1].start,
                           description |-> "\"moves\" expected"]

\* a move token right after the board, side, hands and ply of a position
\* text was decoded
C29_Witness ==
    /\ kind = "Kifu"
    /\ value = NoValue
    /\ ~ghost.moves
    /\ Len(ghost.tokens) = 1
    /\ Len(TokenList(text, 1)) = 6
    /\ result.kind = "InvalidInput"
    /\ result.offset = TokenList(text, 1)[6].start
    /\ result.description = "\"moves\" expected"

(***************************************************************************)
(* from_str: the input is a text chosen at the start (top) followed by the *)
(* bytes appended since (text), and view is Bytes::from of the input; any  *)
(* of the from_str entry points decodes it, or a parse function is applied *)
(* to a suffix of it.  A run may instead construct a Square or a Piece,    *)
(* format it, and decode the text.                                         *)
(***************************************************************************)
\* how far into the input the view handed to a parse function may start
MaxSkip == 2

\* ghost.entry: the type whose decoder ran; ghost.at: -1 for from_str, the
\* base offset of the view for parse; ghost.made: the constructor call
NoMade == [type |-> "None"]

\* the texts a run starts from
FromStrInputs ==
    { << >>,
      <<"7", "g", "7", "f">>,
      <<"G", "*", "4", "i">>,
      StartposWord,
      <<"9", "/", "9", "/", "9", "/", "9", "/", "9", "/", "9", "/", "9", "/", "9", "/", "9">>,
      <<"s", "t", "a", "r", "t", "p", "o", "s", " ", "m", "o", "v", "e", "s", " ", "7", "g", "7", "f">>,
      <<"s", "f", "e", "n", " ", "9", "/", "9", "/", "9", "/", "9", "/", "9", "/", "9", "/", "9", "/", "9", "/", "9", " ", "b", " ", "-", " ", "1">> }

FromStrAppendByte ==
    /\ kind = "FromStr"
    /\ result = NoResult
    /\ ghost.made = NoMade
    /\ Len(text) < MaxExtra
    /\ \E c \in {"7", "g", "+", "*", "G", "b", " ", "P", "K", "k"} :
          /\ text' = Append(text, c)
          /\ view' = Bytes_new(top \o text')
    /\ UNCHANGED <<top, iter, kind, value, result, ghost>>

\* X::from_str(s) is parser_complete(X::parse)(Bytes::from(s)) for every X
from_str(entry, bytes) ==
    parser_complete(
        CASE entry = "Side" -> Side_parse(bytes)
          [] entry = "Col" -> Col_parse(bytes)
          [] entry = "Row" -> Row_parse(bytes)
          [] entry = "Square" -> Square_parse(bytes)
          [] entry = "Piece" -> Piece_parse(bytes)
          [] entry = "HandPieceKind" -> HandPieceKind_parse(bytes)
          [] entry = "Move" -> Move_parse(bytes)
          [] entry = "MoveWalk" -> MoveWalk_parse(bytes)
          [] entry = "MoveDrop" -> MoveDrop_parse(bytes)
          [] entry = "Position" -> Position_parse(bytes)
          [] entry = "Board" -> Board_parse(bytes)
          [] entry = "Hands" -> Hands_parse(bytes))

FromStr ==
    /\ kind = "FromStr"
    /\ result = NoResult
    /\ \E entry \in {"Side", "Col", "Row", "Square", "Piece", "HandPieceKind",
                      "Move", "MoveWalk", "MoveDrop", "Position", "Board", "Hands"} :
          /\ result' = from_str(entry, view)
          /\ ghost' = [ghost EXCEPT !.entry = entry, !.at = -1]
    /\ UNCHANGED <<top, view, iter, kind, text, value>>

\* X::parse(bytes) for a view that starts inside the input, as the composite
\* parsers call it
Parse ==
    /\ kind = "FromStr"
    /\ result = NoResult
    /\ \E entry \in {"Side", "Col", "Row", "Square", "Piece", "HandPieceKind",
                      "Move", "MoveWalk", "MoveDrop"},
          start \in 0..Min(len(view), MaxSkip) :
          LET bytes == range_from(view, start)
          IN /\ view' = bytes
             /\ result' = CASE entry = "Side" -> Side_parse(bytes)
                            [] entry = "Col" -> Col_parse(bytes)
                            [] entry = "Row" -> Row_parse(bytes)
                            [] entry = "Square" -> Square_parse(bytes)
                            [] entry = "Piece" -> Piece_parse(bytes)
                            [] entry = "HandPieceKind" -> HandPieceKind_parse(bytes)
                            [] entry = "Move" -> Move_parse(bytes)
                            [] entry = "MoveWalk" -> MoveWalk_parse(bytes)
                            [] entry = "MoveDrop" -> MoveDrop_parse(bytes)
             /\ ghost' = [ghost EXCEPT !.entry = entry, !.at = start]
    /\ UNCHANGED <<top, iter, kind, text, value>>

SquareNew ==
    /\ kind = "FromStr"
    /\ top = << >>
    /\ text = << >>
    /\ result = NoResult
    /\ ghost.made = NoMade
    /\ \E col \in 0..8, row \in 0..8 :
          /\ value' = Some(Square_new(col, row))
          /\ ghost' = [ghost EXCEPT !.made = [type |-> "Square", col |-> col, row |-> row]]
    /\ UNCHANGED <<top, view, iter, kind, text, result>>

PieceNew ==
    /\ kind = "FromStr"
    /\ top = << >>
    /\ text = << >>
    /\ result = NoResult
    /\ ghost.made = NoMade
    /\ \E side \in {SENTE, GOTE},
          pk \in {"Pawn", "Lance", "Knight", "Silver", "Bishop", "Rook", "Gold", "King",
                  "ProPawn", "ProLance", "ProKnight", "ProSilver", "Horse", "Dragon"} :
          /\ value' = Some(Piece_new(side, pk))
          /\ ghost' = [ghost EXCEPT !.made = [type |-> "Piece", side |-> side, pk |-> pk]]
    /\ UNCHANGED <<top, view, iter, kind, text, result>>

\* to_string() of the Square or Piece constructed
ValueToString ==
    /\ kind = "FromStr"
    /\ value.some
    /\ text = << >>
    /\ result = NoResult
    /\ text' = IF ghost.made.type = "Square" THEN Square_fmt(value.v) ELSE Piece_fmt(value.v)
    /\ view' = Bytes_new(text')
    /\ UNCHANGED <<top, iter, kind, value, result, ghost>>

SpecFromStr ==
    /\ Start("FromStr", FromStrInputs, [entry |-> "None", at |-> -1, made |-> NoMade])
    /\ [][FromStrAppendByte \/ FromStr \/ Parse \/ SquareNew \/ PieceNew \/ ValueToString]_vars

\* the length of the prefix of s that the grammar of a one-token entry point
\* matches, or -1 if it matches none
MatchLen(entry, s) ==
    LET at(i) == IF i <= Len(s) THEN s[i] ELSE ""
        sq(i) == IsSquareText(at(i), at(i + 1))
        hand == {"P", "L", "N", "S", "B", "R", "G"}
        walk == IF sq(1) /\ sq(3) THEN (IF at(5) = "+" THEN 5 ELSE 4) ELSE -1
        drop == IF at(1) \in hand /\ at(2) = "*" /\ sq(3) THEN 4 ELSE -1
    IN CASE entry = "Side" -> IF at(1) \in {"b", "w"} THEN 1 ELSE -1
         [] entry = "Col" -> IF at(1) \in {"1", "2", "3", "4", "5", "6", "7", "8", "9"} THEN 1 ELSE -1
         [] entry = "Row" -> IF at(1) \in {"a", "b", "c", "d", "e", "f", "g", "h", "i"} THEN 1 ELSE -1
         [] entry = "Square" -> IF sq(1) THEN 2 ELSE -1
         [] entry = "Piece" ->
              IF at(1) \in RawPieceLetters THEN 1
              ELSE IF at(1) = "+" /\ at(2) \in PromotablePieceLetters THEN 2 ELSE -1
         [] entry = "HandPieceKind" -> IF at(1) \in hand THEN 1 ELSE -1
         [] entry = "MoveWalk" -> walk
         [] entry = "MoveDrop" -> drop
         [] entry = "Move" -> IF walk >= 0 THEN walk ELSE drop

\* the same for Position: the offset of the first byte after the tokens the
\* grammar consumes that is not a space (Len(s) if there is none), or -1
PositionMatchEnd(s) ==
    LET toks == TokenList(s, 1)
        tok(i) == IF i <= Len(toks) THEN toks[i].buf ELSE << >>
        p == IF tok(1) = PositionWord THEN 1 ELSE 0
        q == IF tok(p + 1) = SfenWord THEN p + 1 ELSE p
        last == IF tok(p + 1) = StartposWord THEN p + 1
                ELSE IF /\ Len(toks) >= q + 4
                        /\ parser_complete(Board_parse(Bytes_new(tok(q + 1)))).kind = "Ok"
                        /\ parser_complete(Side_parse(Bytes_new(tok(q + 2)))).kind = "Ok"
                        /\ parser_complete(Hands_parse(Bytes_new(tok(q + 3)))).kind = "Ok"
                        /\ parse_ply(Bytes_new(tok(q + 4))).kind = "Ok"
                     THEN q + 4 ELSE -1
    IN IF last < 0 THEN -1
       ELSE IF Len(toks) > last THEN toks[last + 1].start ELSE Len(s)

IndexIn(seq, c) == CHOOSE i \in 1..Len(seq) : seq[i] = c

\* C22: for each of the 81 squares sq, Square::new(sq.col(), sq.row()) is
\* sq, the text of sq is the column digit ('9' for column 0 down to '1' for
\* column 8) followed by the row letter ('a' for row 0 up to 'i' for row 8),
\* no other square has the same text, and Square::from_str of the text is sq.
C22_SquareBijection ==
    (kind = "FromStr" /\ ghost.made.type = "Square") =>
        LET sq == value.v
        IN /\ sq \in 0..80
           /\ Square_col(sq) = ghost.made.col
           /\ Square_row(sq) = ghost.made.row
           /\ Square_new(Square_col(sq), Square_row(sq)) = sq
           /\ text # << >> =>
                 /\ Len(text) = 2
                 /\ IsSquareText(text[1], text[2])
                 /\ DigitVal(text[1]) = 9 - ghost.made.col
                 /\ IndexIn(<<"a", "b", "c", "d", "e", "f", "g", "h", "i">>, text[2]) = ghost.made.row + 1
                 /\ \A other \in 0..80 : other # sq => Square_fmt(other) # text
                 /\ (result # NoResult /\ ghost.entry = "Square" /\ ghost.at = -1) =>
                       result = [kind |-> "Ok", value |-> sq]

\* the square of column 0 and row 8 was formatted as "9i" and decoded again
C22_Witness ==
    /\ kind = "FromStr"
    /\ ghost.made = [type |-> "Square", col |-> 0, row |-> 8]
    /\ text = <<"9", "i">>
    /\ ghost.entry = "Square"
    /\ ghost.at = -1
    /\ result.kind = "Ok"

\* the 28 piece texts: a raw letter, or '+' and a promotable letter
IsPieceText(s) ==
    \/ Len(s) = 1 /\ s[1] \in RawPieceLetters
    \/ Len(s) = 2 /\ s[1] = "+" /\ s[2] \in PromotablePieceLetters

\* the piece a piece text denotes: the case of the letter gives the side,
\* the letter and the '+' give the kind
PieceOfText(s) ==
    LET upper == <<"P", "L", "N", "S", "B", "R", "G", "K">>
        lower == <<"p", "l", "n", "s", "b", "r", "g", "k">>
        raw == <<"Pawn", "Lance", "Knight", "Silver", "Bishop", "Rook", "Gold", "King">>
        pro == <<"ProPawn", "ProLance", "ProKnight", "ProSilver", "Horse", "Dragon">>
        c == s[Len(s)]
        i == CHOOSE i \in 1..8 : upper[i] = c \/ lower[i] = c
    IN [side |-> IF upper[i] = c THEN SENTE ELSE GOTE,
        kind |-> IF Len(s) = 2 THEN pro[i] ELSE raw[i]]

\* the 28 pieces
AllPieces ==
    [side : {SENTE, GOTE},
     kind : {"Pawn", "Lance", "Knight", "Silver", "Bishop", "Rook", "Gold", "King",
             "ProPawn", "ProLance", "ProKnight", "ProSilver", "Horse", "Dragon"}]

\* C23: Piece::from_str accepts exactly the 28 piece texts (16 letters and
\* 12 '+' forms) and returns the piece the text denotes; "+K", "+k", "+G",
\* "+g" and "+" give InvalidInput; the text of each of the 28 pieces is one
\* of the 28 texts, denotes the piece, is the text of no other piece, and
\* decodes to the piece.
C23_PieceTexts ==
    /\ (kind = "FromStr" /\ ghost.entry = "Piece" /\ ghost.at = -1 /\ result # NoResult) =>
          LET s == top \o text
          IN /\ IF IsPieceText(s)
                THEN result = [kind |-> "Ok", value |-> PieceOfText(s)]
                ELSE result.kind \in {"InvalidInput", "Extra"}
             /\ s \in {<<"+", "K">>, <<"+", "k">>, <<"+", "G">>, <<"+", "g">>, <<"+">>} =>
                   result.kind = "InvalidInput"
    /\ (kind = "FromStr" /\ ghost.made.type = "Piece") =>
          /\ value.v = [side |-> ghost.made.side, kind |-> ghost.made.pk]
          /\ text # << >> =>
                /\ IsPieceText(text)
                /\ PieceOfText(text) = value.v
                /\ \A other \in AllPieces : other # value.v => Piece_fmt(other) # text
                /\ (result # NoResult /\ ghost.entry = "Piece" /\ ghost.at = -1) =>
                      result = [kind |-> "Ok", value |-> value.v]

\* the second mover's promoted bishop was formatted as "+b" and decoded again
C23_Witness ==
    /\ kind = "FromStr"
    /\ ghost.made = [type |-> "Piece", side |-> GOTE, pk |-> "Horse"]
    /\ text = <<"+", "b">>
    /\ ghost.entry = "Piece"
    /\ ghost.at = -1
    /\ result.kind = "Ok"

\* C24: when Side::parse, Col::parse, Row::parse, HandPieceKind::parse or
\* Piece::parse rejects a view, the error is InvalidInput at the base offset
\* of the view: for an empty view, for a first byte that starts no element,
\* and for a Piece view with '+' and no promotable letter after it.
C24_LeafErrorAtViewBase ==
    (/\ kind = "FromStr"
     /\ ghost.at >= 0
     /\ ghost.entry \in {"Side", "Col", "Row", "HandPieceKind", "Piece"}
     /\ result.kind # "Ok") =>
        /\ result.kind = "InvalidInput"
        /\ result.offset = view.base_offset
        /\ view.base_offset = ghost.at

\* C25: on every view at most one of MoveWalk::parse and MoveDrop::parse
\* succeeds, and Move::parse returns what a dispatch on the first byte
\* returns: for a digit '1'..'9' the value and remainder of MoveWalk::parse,
\* for a letter of PLNSBRG those of MoveDrop::parse, and InvalidInput at the
\* base offset of the view when the parser chosen fails or the first byte
\* is neither.
C25_MoveDispatch ==
    (kind = "FromStr" /\ ghost.at >= 0 /\ ghost.entry = "Move" /\ result # NoResult) =>
        LET walk == MoveWalk_parse(view)
            drop == MoveDrop_parse(view)
            first == get(view, 0)
            chosen == IF first \in {"1", "2", "3", "4", "5", "6", "7", "8", "9"} THEN walk
                      ELSE IF first \in {"P", "L", "N", "S", "B", "R", "G"} THEN drop
                      ELSE [kind |-> "None"]
        IN /\ ~(walk.kind = "Ok" /\ drop.kind = "Ok")
           /\ IF chosen.kind = "Ok"
              THEN result = chosen
              ELSE /\ result.kind = "InvalidInput"
                   /\ result.offset = view.base_offset
                   /\ result.description = "Move expected"

\* Move::parse on "G*4i+7" returned the drop and the remainder "+7"
C25_Witness ==
    /\ kind = "FromStr"
    /\ ghost.at = 0
    /\ ghost.entry = "Move"
    /\ result.kind = "Ok"
    /\ result.value.tag = "Drop"
    /\ result.remain = [buf |-> <<"+", "7">>, base_offset |-> 4]

\* C30: for every from_str entry point and every input s, the offset of a
\* returned InvalidInput is in 0..len(s) and the offset of a returned Extra
\* is in 0..len(s)-1.  (Kifu::from_str is applied to the inputs that
\* Position::from_str was applied to.)
C30_ErrorOffsetInsideInput ==
    (kind = "FromStr" /\ ghost.at = -1 /\ result # NoResult) =>
        LET s == top \o text
            inside(r) ==
                /\ r.kind = "InvalidInput" => (0 <= r.offset /\ r.offset <= Len(s))
                /\ r.kind = "Extra" => (0 <= r.offset /\ r.offset < Len(s))
        IN /\ inside(result)
           /\ ghost.entry = "Position" => inside(parser_complete(Kifu_parse(Bytes_new(s))))

\* Position::from_str of a text that ends in a space returned InvalidInput
\* at the length of the text
C30_Witness ==
    /\ kind = "FromStr"
    /\ ghost.at = -1
    /\ ghost.entry = "Position"
    /\ result.kind = "InvalidInput"
    /\ Len(top \o text) > 0
    /\ (top \o text)[Len(top \o text)] = " "
    /\ result.offset = Len(top \o text)

\* the indices from i on at which a text holds the byte c, ascending
RECURSIVE Positions(_, _, _)
Positions(s, c, i) ==
    IF i > Len(s) THEN << >>
    ELSE (IF s[i] = c THEN <<i>> ELSE << >>) \o Positions(s, c, i + 1)

\* the first n views with the byte c after each of them
RECURSIVE JoinWith(_, _, _)
JoinWith(ys, c, n) ==
    IF n = 0 THEN << >> ELSE JoinWith(ys, c, n - 1) \o ys[n].buf \o <<c>>

\* C27: split('/') on a view with k bytes '/' yields k + 1 fields and then
\* None on every further call: the i-th field is the bytes between the
\* (i-1)-th and the i-th delimiter (from the start of the view for the
\* first field, to its end for the last), it holds no delimiter, it is
\* empty where two delimiters are adjacent or a delimiter begins or ends
\* the view, its base_offset is the absolute position of its first byte,
\* and the fields joined by '/' are the view.
C27_SplitFields ==
    (kind = "Bytes" /\ ghost.of = "Split") =>
        LET v == ghost.over.buf
            base == ghost.over.base_offset
            ys == ghost.yields
            ds == Positions(v, "/", 1)
            k == Len(ds)
            d(i) == IF i = 0 THEN 0 ELSE IF i > k THEN Len(v) + 1 ELSE ds[i]
        IN /\ Len(ys) <= k + 1
           /\ \A i \in 1..Len(ys) :
                 /\ ys[i].buf = SubSeq(v, d(i - 1) + 1, d(i) - 1)
                 /\ ys[i].base_offset = base + d(i - 1)
                 /\ \A j \in 1..Len(ys[i].buf) : ys[i].buf[j] # "/"
           /\ ghost.nones > 0 => Len(ys) = k + 1
           /\ Len(ys) = k + 1 =>
                 /\ JoinWith(ys, "/", k) \o ys[k + 1].buf = v
                 /\ ~Split_next(iter).some
           /\ Len(ys) < k + 1 => Split_next(iter).some

\* the view "/a/" at offset 0 was split: three fields, the first and the
\* last empty, and None twice after them
C27_Witness ==
    /\ kind = "Bytes"
    /\ ghost.of = "Split"
    /\ ghost.over = [buf |-> <<"/", "a", "/">>, base_offset |-> 0]
    /\ Len(ghost.yields) = 3
    /\ ghost.yields[1] = [buf |-> << >>, base_offset |-> 0]
    /\ ghost.yields[3] = [buf |-> << >>, base_offset |-> 3]
    /\ ghost.nones = 2

\* C28: tokens() yields, in order, exactly the maximal runs of bytes other
\* than the ASCII space, each with the absolute offset of its first byte,
\* and then None on every further call; a token is not empty and holds no
\* space; a view that is empty or all spaces yields none.  After any number
\* of next() calls remain() returns the rest of the view from the first
\* byte of the next token on (the empty view at the end of the view if
\* there is none), trailing spaces included.
C28_TokensAndRemain ==
    (kind = "Bytes" /\ ghost.of = "Tokens") =>
        LET v == ghost.over.buf
            base == ghost.over.base_offset
            ys == ghost.yields
            toks == TokenList(v, 1)
            start == IF Len(ys) < Len(toks) THEN toks[Len(ys) + 1].start ELSE Len(v)
        IN /\ Len(ys) <= Len(toks)
           /\ \A i \in 1..Len(ys) :
                 /\ ys[i] = [buf |-> toks[i].buf, base_offset |-> base + toks[i].start]
                 /\ ys[i].buf # << >>
                 /\ \A j \in 1..Len(ys[i].buf) : ys[i].buf[j] # " "
           /\ ghost.nones > 0 => Len(ys) = Len(toks)
           /\ (\A j \in 1..Len(v) : v[j] = " ") => ys = << >>
           /\ iter.type = "Tokens" => (Tokens_next(iter).some <=> Len(ys) < Len(toks))
           /\ ghost.remain.some =>
                 ghost.remain.v = [buf |-> SubSeq(v, start + 1, Len(v)), base_offset |-> base + start]

\* of the view "a a " one token was taken and remain() returned "a " at
\* offset 2
C28_Witness ==
    /\ kind = "Bytes"
    /\ ghost.of = "Tokens"
    /\ ghost.over.buf = <<"a", " ", "a">>
    /\ Len(ghost.yields) = 1
    /\ ghost.remain = Some([buf |-> <<"a">>, base_offset |-> 2])

(***************************************************************************)
(* The whole crate: a run drives one of its parts.                         *)
(***************************************************************************)
Init ==
    \/ Start("Bytes", Buffers, NoCalls)
    \/ Start("BoardRow", {<< >>}, << >>)
    \/ Start("Board", {<< >>}, [fields |-> << >>, placed |-> 0, formatted |-> FALSE])
    \/ Start("Hands", {<< >>}, [elems |-> << >>, raw |-> FALSE, set |-> 0, formatted |-> FALSE])
    \/ Start("Position", {<< >>}, [stage |-> 0])
    \/ Start("Kifu", {<< >>}, [moves |-> FALSE, tokens |-> << >>])
    \/ Start("FromStr", FromStrInputs, [entry |-> "None", at |-> -1, made |-> NoMade])

Next ==
    \/ BytesRange
    \/ BytesRangeFrom
    \/ BytesRangeTo
    \/ BytesSplitAt
    \/ BytesTrySplitAt
    \/ BytesSplit
    \/ BytesSplitNext
    \/ BytesTokens
    \/ BytesTokensNext
    \/ BytesTokensRemain
    \/ RowAppendByte
    \/ RowParse
    \/ BoardAppendField
    \/ BoardNew
    \/ BoardPlace
    \/ BoardToString
    \/ BoardFromStr
    \/ HandsAppendElem
    \/ HandsAppendRaw
    \/ HandsNew
    \/ HandsSet
    \/ HandsToString
    \/ HandsFromStr
    \/ PositionAppendSpace
    \/ PositionAppendWord
    \/ PositionAppendField
    \/ PositionFromStr
    \/ PositionToString
    \/ KifuAppendSpace
    \/ KifuAppendPosition
    \/ KifuAppendMoves
    \/ KifuAppendMove
    \/ KifuNew
    \/ KifuToString
    \/ KifuFromStr
    \/ FromStrAppendByte
    \/ FromStr
    \/ Parse
    \/ SquareNew
    \/ PieceNew
    \/ ValueToString

Spec == Init /\ [][Next]_vars

====
